---- MODULE Spec2Model ----
(***************************************************************************)
(* Model of server-filesystem.js: the path guard (validatePath), the tool  *)
(* handlers that mutate the filesystem, and the edit engine                *)
(* (applyFileEdits).                                                       *)
(*                                                                         *)
(* A name is a sequence of characters, a path a sequence of names (all     *)
(* paths are absolute, POSIX).  The filesystem is a function from the      *)
(* paths that exist to nodes; every await of a handler is one action.      *)
(*                                                                         *)
(* Requests carry absolute paths (expandHome and the resolution against    *)
(* process.cwd() are left out).  Of the structural validators only         *)
(* validateJavaScript is modelled; the files edited are JavaScript.  The   *)
(* diff library is reduced to the changed lines between the common head    *)
(* and tail of the two texts.                                              *)
(***************************************************************************)
EXTENDS Integers, Sequences, FiniteSets, TLC

VARIABLES fs, req, preview, interposed

vars == <<fs, req, preview, interposed>>

(***************************************************************************)
(* Bounds                                                                  *)
(***************************************************************************)
MaxPathLen == 3
MaxEdits == 2
MaxLinkHops == 3

(***************************************************************************)
(* Names and the fixed part of the directory tree                          *)
(***************************************************************************)
DotDot == <<".", ".">>
Dot == <<".">>
Nr == <<"r">>
Nrx == <<"r", "x">>
No == <<"o">>
Nd == <<"d">>
Nl == <<"l">>
Nf == <<"f", ".", "j", "s">>
Nn == <<"n">>
Ns == <<"s">>
Nddx == <<".", ".", "x">>
Nb == <<"b">>

\* process.argv.slice(2), resolved at startup
allowedDirectories == << <<Nr>> >>

Root == allowedDirectories[1]

(***************************************************************************)
(* String and path helpers (node's path module, POSIX flavour)             *)
(***************************************************************************)
StartsWith(s, pre) ==
    Len(s) >= Len(pre) /\ SubSeq(s, 1, Len(pre)) = pre

EndsWith(s, suf) ==
    Len(s) >= Len(suf) /\ SubSeq(s, Len(s) - Len(suf) + 1, Len(s)) = suf

RECURSIVE JoinSep(_)
JoinSep(segs) ==
    IF segs = <<>> THEN <<>>
    ELSE IF Len(segs) = 1 THEN segs[1]
    ELSE segs[1] \o <<"/">> \o JoinSep(Tail(segs))

RECURSIVE Collapse(_, _)
Collapse(done, rest) ==
    IF rest = <<>> THEN done
    ELSE LET c == Head(rest) IN
         IF c = Dot THEN Collapse(done, Tail(rest))
         ELSE IF c = DotDot
              THEN Collapse(IF done = <<>> THEN <<>>
                            ELSE SubSeq(done, 1, Len(done) - 1), Tail(rest))
              ELSE Collapse(Append(done, c), Tail(rest))

\* path.resolve of an absolute path: collapses "." and ".." segments
PathResolve(p) == Collapse(<<>>, p)

normalizePath(p) == Collapse(<<>>, p)

dirname(p) == IF p = <<>> THEN <<>> ELSE SubSeq(p, 1, Len(p) - 1)

basename(p) == IF p = <<>> THEN <<>> ELSE p[Len(p)]

RECURSIVE CommonLen(_, _)
CommonLen(a, b) ==
    IF a = <<>> \/ b = <<>> THEN 0
    ELSE IF Head(a) = Head(b) THEN 1 + CommonLen(Tail(a), Tail(b))
    ELSE 0

\* path.relative(from, to), as the string node returns
PathRelative(from, to) ==
    LET k == CommonLen(from, to) IN
    JoinSep([i \in 1..(Len(from) - k) |-> DotDot] \o SubSeq(to, k + 1, Len(to)))

IsAbsoluteStr(s) == s # <<>> /\ s[1] = "/"

IsPrefix(a, b) == Len(a) <= Len(b) /\ SubSeq(b, 1, Len(a)) = a

SeqToSet(s) == {s[i] : i \in 1..Len(s)}

\* containment by string prefix, without the boundary path.relative gives
isPathWithinByStringPrefix(requestedPath, allowedDirs) ==
    \E allowedDir \in SeqToSet(allowedDirs) :
        StartsWith(JoinSep(requestedPath), JoinSep(allowedDir))

isPathWithinAllowedDirectories(requestedPath, allowedDirs) ==
    \E allowedDir \in SeqToSet(allowedDirs) :
        LET relative == PathRelative(allowedDir, requestedPath) IN
        \/ relative = <<>>
        \/ /\ relative # <<>>
           /\ ~StartsWith(relative, DotDot)
           /\ ~IsAbsoluteStr(relative)

(***************************************************************************)
(* The filesystem: nodes, symlink resolution and the OS primitives         *)
(***************************************************************************)
DirNode == [type |-> "dir", target |-> <<>>, data |-> <<>>]
FileNode(data) == [type |-> "file", target |-> <<>>, data |-> data]
LinkNode(target) == [type |-> "link", target |-> target, data |-> <<>>]

Exists(f, p) == p = <<>> \/ p \in DOMAIN f

NodeAt(f, p) == IF p = <<>> THEN DirNode ELSE f[p]

Ok(p) == [ok |-> TRUE, path |-> p, code |-> "none"]
Err(code) == [ok |-> FALSE, path |-> <<>>, code |-> code]

\* fs.realpath: follows every symlink on the way, the last component included
RECURSIVE Resolve(_, _, _, _)
Resolve(f, done, rest, hops) ==
    IF rest = <<>> THEN Ok(done)
    ELSE LET cand == Append(done, Head(rest)) IN
         IF NodeAt(f, done).type # "dir" THEN Err("ENOTDIR")
         ELSE IF ~Exists(f, cand) THEN Err("ENOENT")
         ELSE IF f[cand].type = "link"
              THEN IF hops = 0 THEN Err("ELOOP")
                   ELSE Resolve(f, <<>>, f[cand].target \o Tail(rest), hops - 1)
              ELSE Resolve(f, cand, Tail(rest), hops)

realpath(f, p) == Resolve(f, <<>>, p, MaxLinkHops)

\* where a system call that does not follow a final symlink acts
\* (unlink, rmdir, rename, lstat): the parent is resolved, the last
\* component is taken as it is
EntryOf(f, p) ==
    IF p = <<>> THEN Ok(<<>>)
    ELSE LET par == realpath(f, dirname(p)) IN
         IF ~par.ok THEN par
         ELSE IF NodeAt(f, par.path).type # "dir" THEN Err("ENOTDIR")
         ELSE Ok(Append(par.path, basename(p)))

\* where open(O_CREAT) lands: an existing file, or the place a new file is
\* created, following a final symlink also when it dangles
RECURSIVE OpenTarget(_, _, _)
OpenTarget(f, p, hops) ==
    LET e == EntryOf(f, p) IN
    IF ~e.ok THEN e
    ELSE IF ~Exists(f, e.path) THEN e
    ELSE IF NodeAt(f, e.path).type = "link"
         THEN IF hops = 0 THEN Err("ELOOP")
              ELSE OpenTarget(f, f[e.path].target, hops - 1)
         ELSE IF NodeAt(f, e.path).type = "dir" THEN Err("EISDIR")
         ELSE e

Put(f, p, node) == (p :> node) @@ f

Drop(f, gone) == [q \in (DOMAIN f) \ gone |-> f[q]]

Subtree(f, p) == {q \in DOMAIN f : IsPrefix(p, q)}

Children(f, p) == {q \in DOMAIN f : Len(q) = Len(p) + 1 /\ IsPrefix(p, q)}


\* fs.rename(src, dst): replaces an existing destination of the same kind
RenameCheck(f, src, dst) ==
    LET es == EntryOf(f, src)
        ed == EntryOf(f, dst)
    IN  IF ~es.ok THEN es.code
        ELSE IF es.path = <<>> \/ ~Exists(f, es.path) THEN "ENOENT"
        ELSE IF ~ed.ok THEN ed.code
        ELSE IF ed.path = <<>> THEN "EBUSY"
        ELSE IF es.path = ed.path THEN "same"
        ELSE IF IsPrefix(es.path, ed.path) THEN "EINVAL"
        ELSE IF ~Exists(f, ed.path) THEN "none"
        ELSE IF f[es.path].type = "dir"
             THEN IF f[ed.path].type # "dir" THEN "ENOTDIR"
                  ELSE IF Children(f, ed.path) # {} THEN "ENOTEMPTY"
                  ELSE "none"
             ELSE IF f[ed.path].type = "dir" THEN "EISDIR" ELSE "none"

RenameApply(f, from, to) ==
    LET moved == Subtree(f, from)
        kept == Drop(f, moved \cup Subtree(f, to))
        dest(q) == to \o SubSeq(q, Len(from) + 1, Len(q))
    IN  [q \in (DOMAIN kept) \cup {dest(m) : m \in moved} |->
            IF \E m \in moved : dest(m) = q
            THEN f[CHOOSE m \in moved : dest(m) = q]
            ELSE kept[q]]

(***************************************************************************)
(* validatePath, one definition per await                                  *)
(***************************************************************************)
Pass(p) == [state |-> "pass", path |-> p, error |-> "none"]
Fail(e) == [state |-> "fail", path |-> <<>>, error |-> e]
Parent(p) == [state |-> "parent", path |-> p, error |-> "none"]

\* validatePath returning the real path without the second containment check
validatePathNoRecheck(f, requestedPath) ==
    LET absolute == PathResolve(requestedPath)
        normalizedRequested == normalizePath(absolute)
    IN  IF ~isPathWithinAllowedDirectories(normalizedRequested, allowedDirectories)
        THEN Fail("AccessDenied")
        ELSE LET r == realpath(f, absolute) IN
             IF r.ok THEN Pass(r.path)
             ELSE IF r.code = "ENOENT" THEN Parent(absolute)
             ELSE Fail(r.code)

\* lines 93-116: the lexical check, realpath of the target, and the choice
\* of the ENOENT branch
validatePath(f, requestedPath) ==
    LET absolute == PathResolve(requestedPath)
        normalizedRequested == normalizePath(absolute)
    IN  IF ~isPathWithinAllowedDirectories(normalizedRequested, allowedDirectories)
        THEN Fail("AccessDenied")
        ELSE LET r == realpath(f, absolute) IN
             IF r.ok
             THEN IF ~isPathWithinAllowedDirectories(normalizePath(r.path),
                                                     allowedDirectories)
                  THEN Fail("AccessDenied")
                  ELSE Pass(r.path)
             ELSE IF r.code = "ENOENT" THEN Parent(absolute)
             ELSE Fail(r.code)

\* lines 118-123: the body of the inner try, which returns or throws
validateParentTry(f, absolute) ==
    LET r == realpath(f, dirname(absolute)) IN
    IF ~r.ok THEN Fail(r.code)
    ELSE IF ~isPathWithinAllowedDirectories(normalizePath(r.path),
                                            allowedDirectories)
         THEN Fail("AccessDenied")
         ELSE Pass(absolute)

\* lines 117-126: the inner try with its catch, which turns whatever was
\* thrown into "Parent directory does not exist"
validateParent(f, absolute) ==
    LET t == validateParentTry(f, absolute) IN
    IF t.state = "fail" THEN Fail("ParentMissing") ELSE t


(***************************************************************************)
(* Text helpers (JavaScript String methods on sequences of characters)     *)
(***************************************************************************)
Whitespace == {" ", "\t", "\r", "\n"}

\* the backtick character, which a TLA+ string cannot hold
Backtick == "BACKTICK"

Min(S) == CHOOSE x \in S : \A y \in S : x <= y

\* String.prototype.indexOf: zero-based, -1 when absent
IndexOf(s, sub) ==
    LET at == {i \in 0..(Len(s) - Len(sub)) : SubSeq(s, i + 1, i + Len(sub)) = sub}
    IN  IF at = {} THEN -1 ELSE Min(at)

Includes(s, sub) == IndexOf(s, sub) # -1

\* the replacement patterns String.prototype.replace expands in a string
\* replacement: $$, $&, $BACKTICK and $'
RECURSIVE ExpandReplacement(_, _, _, _)
ExpandReplacement(new, matched, before, after) ==
    IF new = <<>> THEN <<>>
    ELSE IF new[1] = "$" /\ Len(new) >= 2 /\ new[2] \in {"$", "&", Backtick, "'"}
         THEN (IF new[2] = "$" THEN <<"$">>
               ELSE IF new[2] = "&" THEN matched
               ELSE IF new[2] = Backtick THEN before
               ELSE after)
              \o ExpandReplacement(SubSeq(new, 3, Len(new)), matched, before, after)
         ELSE <<new[1]>> \o ExpandReplacement(Tail(new), matched, before, after)

\* String.prototype.replace(string, string): the first occurrence only
StringReplace(s, old, new) ==
    LET i == IndexOf(s, old) IN
    IF i = -1 THEN s
    ELSE LET before == SubSeq(s, 1, i)
             after == SubSeq(s, i + Len(old) + 1, Len(s))
         IN  before \o ExpandReplacement(new, old, before, after) \o after

\* text.replace(/\r\n/g, '\n')
RECURSIVE normalizeLineEndings(_)
normalizeLineEndings(text) ==
    IF text = <<>> THEN <<>>
    ELSE IF Len(text) >= 2 /\ text[1] = "\r" /\ text[2] = "\n"
         THEN <<"\n">> \o normalizeLineEndings(SubSeq(text, 3, Len(text)))
         ELSE <<text[1]>> \o normalizeLineEndings(Tail(text))

\* String.prototype.split('\n')
RECURSIVE SplitLines(_)
SplitLines(s) ==
    LET i == IndexOf(s, <<"\n">>) IN
    IF i = -1 THEN <<s>>
    ELSE <<SubSeq(s, 1, i)>> \o SplitLines(SubSeq(s, i + 2, Len(s)))

\* Array.prototype.join('\n')
RECURSIVE JoinLines(_)
JoinLines(lines) ==
    IF lines = <<>> THEN <<>>
    ELSE IF Len(lines) = 1 THEN lines[1]
    ELSE lines[1] \o <<"\n">> \o JoinLines(Tail(lines))

\* line.match(/^\s*/)[0]
RECURSIVE LeadingSpace(_)
LeadingSpace(s) ==
    IF s = <<>> \/ s[1] \notin Whitespace THEN <<>>
    ELSE <<s[1]>> \o LeadingSpace(Tail(s))

TrimStart(s) == SubSeq(s, Len(LeadingSpace(s)) + 1, Len(s))

RECURSIVE TrimEnd(_)
TrimEnd(s) ==
    IF s = <<>> \/ s[Len(s)] \notin Whitespace THEN s
    ELSE TrimEnd(SubSeq(s, 1, Len(s) - 1))

Trim(s) == TrimEnd(TrimStart(s))

Repeat(c, n) == [k \in 1..n |-> c]

Max(a, b) == IF a >= b THEN a ELSE b

(***************************************************************************)
(* applyFileEdits: matching                                                *)
(***************************************************************************)
\* lines 697-700: the window of content lines at i equals oldLines after trim
WindowMatches(contentLines, oldLines, i) ==
    \A j \in 1..Len(oldLines) : Trim(oldLines[j]) = Trim(contentLines[i + j])

\* the replacement lines taken as they are
FuzzyNewLinesAsGiven(contentLines, oldLines, normalizedNew, i) ==
    SplitLines(normalizedNew)

\* lines 704-715: the replacement lines, re-indented
FuzzyNewLines(contentLines, oldLines, normalizedNew, i) ==
    LET originalIndent == LeadingSpace(contentLines[i + 1])
        raw == SplitLines(normalizedNew)
    IN  [j \in 1..Len(raw) |->
            IF j = 1 THEN originalIndent \o TrimStart(raw[j])
            ELSE LET oldIndent == IF j <= Len(oldLines)
                                  THEN LeadingSpace(oldLines[j]) ELSE <<>>
                     newIndent == LeadingSpace(raw[j])
                 IN  IF oldIndent # <<>> /\ newIndent # <<>>
                     THEN originalIndent
                          \o Repeat(" ", Max(0, Len(newIndent) - Len(oldIndent)))
                          \o TrimStart(raw[j])
                     ELSE raw[j]]

\* lines 717-718: the window of oldLines at i replaced by the new lines
SpliceLines(contentLines, oldLines, normalizedNew, i) ==
    JoinLines(SubSeq(contentLines, 1, i)
              \o FuzzyNewLines(contentLines, oldLines, normalizedNew, i)
              \o SubSeq(contentLines, i + Len(oldLines) + 1, Len(contentLines)))

\* lines 689-726: the line-by-line match, at the first window that matches
FuzzyReplace(modifiedContent, contentLines, oldLines, normalizedNew) ==
    LET hits == {i \in 0..(Len(contentLines) - Len(oldLines)) :
                    WindowMatches(contentLines, oldLines, i)}
    IN  IF hits = {} THEN [found |-> FALSE, content |-> modifiedContent]
        ELSE [found |-> TRUE,
              content |-> SpliceLines(contentLines, oldLines, normalizedNew,
                                      Min(hits))]

\* lines 683-726: the exact match, else the line-by-line match
ExactOrFuzzy(modifiedContent, normalizedOld, normalizedNew) ==
    IF Includes(modifiedContent, normalizedOld)
    THEN [found |-> TRUE,
          content |-> StringReplace(modifiedContent, normalizedOld, normalizedNew)]
    ELSE FuzzyReplace(modifiedContent, SplitLines(modifiedContent),
                      SplitLines(normalizedOld), normalizedNew)

\* lines 679-726: one iteration of the edit loop
ApplyEdit(modifiedContent, edit) ==
    ExactOrFuzzy(modifiedContent, normalizeLineEndings(edit.oldText),
                 normalizeLineEndings(edit.newText))

RECURSIVE ApplyEdits(_, _)
\* the loop left after its first edit
ThenApplyNothing(one, rest) == one

\* lines 724-727: the throw when the edit was not found, else the next edit
ThenApply(one, rest) ==
    IF ~one.found THEN one ELSE ApplyEdits(one.content, rest)

\* lines 677-727: the edit loop, left to right; it stops at the first edit
\* that is not found
ApplyEdits(modifiedContent, edits) ==
    IF edits = <<>> THEN [found |-> TRUE, content |-> modifiedContent]
    ELSE ThenApply(ApplyEdit(modifiedContent, Head(edits)), Tail(edits))

(***************************************************************************)
(* File type detection and the structural validators                       *)
(***************************************************************************)
\* path.extname of a file name
ExtName(name) ==
    LET dots == {k \in 1..Len(name) : name[k] = "."} IN
    IF dots = {} THEN <<>>
    ELSE LET last == CHOOSE k \in dots : \A m \in dots : m <= k IN
         IF last = 1 \/ name = DotDot THEN <<>>
         ELSE SubSeq(name, last, Len(name))

typeMap ==
    (<<".", "j", "s">> :> "javascript") @@
    (<<".", "j", "s", "x">> :> "javascript") @@
    (<<".", "t", "s">> :> "typescript") @@
    (<<".", "t", "s", "x">> :> "typescript") @@
    (<<".", "j", "s", "o", "n">> :> "json") @@
    (<<".", "y", "a", "m", "l">> :> "yaml") @@
    (<<".", "y", "m", "l">> :> "yaml") @@
    (<<".", "x", "m", "l">> :> "xml") @@
    (<<".", "h", "t", "m", "l">> :> "html") @@
    (<<".", "c", "s", "s">> :> "css") @@
    (<<".", "s", "c", "s", "s">> :> "scss") @@
    (<<".", "s", "a", "s", "s">> :> "sass") @@
    (<<".", "p", "y">> :> "python") @@
    (<<".", "p", "h", "p">> :> "php") @@
    (<<".", "j", "a", "v", "a">> :> "java") @@
    (<<".", "c">> :> "c") @@
    (<<".", "c", "p", "p">> :> "cpp") @@
    (<<".", "h">> :> "c") @@
    (<<".", "h", "p", "p">> :> "cpp") @@
    (<<".", "g", "o">> :> "go") @@
    (<<".", "r", "s">> :> "rust") @@
    (<<".", "r", "b">> :> "ruby") @@
    (<<".", "s", "h">> :> "shell") @@
    (<<".", "b", "a", "s", "h">> :> "shell") @@
    (<<".", "s", "q", "l">> :> "sql") @@
    (<<".", "m", "d">> :> "markdown") @@
    (<<".", "t", "x", "t">> :> "text")

\* lines 312-356, for lower-case names
getFileType(filePath) ==
    LET fileName == basename(filePath)
        ext == ExtName(fileName)
    IN  IF EndsWith(fileName, <<".", "j", "s", "o", "n">>) THEN "json"
        ELSE IF fileName = <<"d", "o", "c", "k", "e", "r", "f", "i", "l", "e">>
                \/ StartsWith(fileName,
                              <<"d", "o", "c", "k", "e", "r", "f", "i", "l", "e", ".">>)
             THEN "dockerfile"
        ELSE IF ext \in DOMAIN typeMap THEN typeMap[ext] ELSE "text"

Openers == {"(", "[", "{"}
Closers == {")", "]", "}"}
Quotes == {"\"", "'", Backtick}

brackets(c) == IF c = "(" THEN ")" ELSE IF c = "[" THEN "]" ELSE "}"

\* lines 374-412: the scan of one line
RECURSIVE ScanLine(_, _, _, _, _)
ScanLine(line, inString, stringChar, escaped, stack) ==
    IF line = <<>> THEN [error |-> "none", stack |-> stack]
    ELSE LET char == Head(line)
             rest == Tail(line)
         IN  IF escaped THEN ScanLine(rest, inString, stringChar, FALSE, stack)
             ELSE IF char = "\\" THEN ScanLine(rest, inString, stringChar, TRUE, stack)
             ELSE IF ~inString /\ char \in Quotes
                  THEN ScanLine(rest, TRUE, char, FALSE, stack)
             ELSE IF inString /\ char = stringChar
                  THEN ScanLine(rest, FALSE, "", FALSE, stack)
             ELSE IF ~inString
                  THEN IF char \in Openers
                       THEN ScanLine(rest, inString, stringChar, FALSE,
                                     Append(stack, char))
                       ELSE IF char \in Closers
                            THEN IF stack = <<>>
                                 THEN [error |-> "UnexpectedClosing", stack |-> stack]
                                 ELSE IF brackets(stack[Len(stack)]) # char
                                      THEN [error |-> "Mismatched", stack |-> stack]
                                      ELSE ScanLine(rest, inString, stringChar, FALSE,
                                                    SubSeq(stack, 1, Len(stack) - 1))
                            ELSE ScanLine(rest, inString, stringChar, FALSE, stack)
                  ELSE ScanLine(rest, inString, stringChar, FALSE, stack)

\* lines 368-413: every line starts outside a string and unescaped; the
\* stack carries over
RECURSIVE ScanLines(_, _)
\* an error ends the scan, else it goes on with the next line
ThenScan(one, rest) ==
    IF one.error # "none" THEN one ELSE ScanLines(rest, one.stack)

ScanLines(lines, stack) ==
    IF lines = <<>> THEN [error |-> "none", stack |-> stack]
    ELSE ThenScan(ScanLine(Head(lines), FALSE, "", FALSE, stack), Tail(lines))

\* lines 359-444; the pattern checks of lines 423-435 only log
\* lines 415-438: the verdict on the result of the scan
BracketVerdict(scan) ==
    IF scan.error # "none" THEN [valid |-> FALSE, error |-> scan.error]
    ELSE IF scan.stack # <<>> THEN [valid |-> FALSE, error |-> "Unclosed"]
    ELSE [valid |-> TRUE, error |-> "none"]

validateJavaScript(content) ==
    BracketVerdict(ScanLines(SplitLines(content), <<>>))

\* lines 653-670; the files of the model are JavaScript or plain text
validateFileContent(content, fileType) ==
    IF fileType = "javascript" THEN validateJavaScript(content)
    ELSE [valid |-> TRUE, error |-> "none"]

(***************************************************************************)
(* applyFileEdits: diff and the part between readFile and writeFile        *)
(***************************************************************************)
RECURSIVE CommonSuffixLen(_, _)
CommonSuffixLen(a, b) ==
    IF a = <<>> \/ b = <<>> THEN 0
    ELSE IF a[Len(a)] = b[Len(b)]
         THEN 1 + CommonSuffixLen(SubSeq(a, 1, Len(a) - 1), SubSeq(b, 1, Len(b) - 1))
         ELSE 0

\* createTwoFilesPatch of the diff package, reduced to one hunk: the lines
\* removed and added between the common head and tail of the two texts
createUnifiedDiff(originalContent, newContent) ==
    LET a == SplitLines(normalizeLineEndings(originalContent))
        b == SplitLines(normalizeLineEndings(newContent))
        pre == CommonLen(a, b)
        suf == CommonSuffixLen(SubSeq(a, pre + 1, Len(a)), SubSeq(b, pre + 1, Len(b)))
    IN  IF a = b THEN <<>>
        ELSE << [start |-> pre + 1,
                 removed |-> SubSeq(a, pre + 1, Len(a) - suf),
                 added |-> SubSeq(b, pre + 1, Len(b) - suf)] >>

\* lines 729-760: the throw for an edit not found, the validation gate and
\* the diff, given the normalized content and the result of the edit loop
GateAndDiff(filePath, content, applied, skipValidation) ==
    IF ~applied.found
    THEN [error |-> "EditNotFound", modified |-> applied.content, diff |-> <<>>]
    ELSE IF ~skipValidation
            /\ ~validateFileContent(applied.content, getFileType(filePath)).valid
         THEN [error |-> "ValidationFailed", modified |-> applied.content,
               diff |-> <<>>]
         ELSE [error |-> "none", modified |-> applied.content,
               diff |-> createUnifiedDiff(content, applied.content)]

\* the edit loop persisting whatever matched when an edit is not found
EditOutcomeKeepPartial(filePath, data, edits, skipValidation) ==
    LET content == normalizeLineEndings(data)
        applied == ApplyEdits(content, edits)
    IN  IF ~skipValidation
           /\ ~validateFileContent(applied.content, getFileType(filePath)).valid
        THEN [error |-> "ValidationFailed", modified |-> applied.content, diff |-> <<>>]
        ELSE [error |-> "none", modified |-> applied.content,
              diff |-> createUnifiedDiff(content, applied.content)]

\* the validation result ignored
EditOutcomeNoGate(filePath, data, edits, skipValidation) ==
    LET content == normalizeLineEndings(data)
        applied == ApplyEdits(content, edits)
    IN  IF ~applied.found
        THEN [error |-> "EditNotFound", modified |-> applied.content, diff |-> <<>>]
        ELSE [error |-> "none", modified |-> applied.content,
              diff |-> createUnifiedDiff(content, applied.content)]

\* lines 674-760: from the content read to the diff, or the error thrown
EditOutcome(filePath, data, edits, skipValidation) ==
    GateAndDiff(filePath, normalizeLineEndings(data),
                ApplyEdits(normalizeLineEndings(data), edits), skipValidation)

\* every run writes, the preview included
PersistAlways(dryRun) == TRUE

\* line 778: if (!dryRun)
Persist(dryRun) == ~dryRun

Hex == {<<"0">>, <<"1">>}

\* line 782: `${filePath}.${randomBytes(16).toString('hex')}.tmp`
TempPath(filePath, hex) ==
    dirname(filePath)
    \o << basename(filePath) \o <<".">> \o hex \o <<".", "t", "m", "p">> >>

(***************************************************************************)
(* Requests: the CallToolRequestSchema handler, one slot per in-flight     *)
(* request.  pc is the await the handler is suspended at.                  *)
(***************************************************************************)
Clients == {1, 2}

\* the value of an argument holding a path: absolute, relative, or written
\* with a leading ~ (parts are the names after the ~)
Given(kind, parts) == [kind |-> kind, parts |-> parts]

Absent == Given("absent", <<>>)

\* run_command before its call: the arguments and the child process
NoCommand ==
    [workingDirectory |-> Absent, timeout |-> 0, exits |-> TRUE, after |-> 0,
     spawned |-> FALSE, at |-> <<>>, elapsed |-> 0, killed |-> FALSE]

Idle(left) ==
    [pc |-> "idle", cmd |-> NoCommand, isError |-> FALSE, errors |-> 0, left |-> left, tool |-> "none",
     paths |-> <<>>, valid |-> <<>>, via |-> <<>>, absolute |-> <<>>,
     content |-> <<>>, recursive |-> FALSE,
     edits |-> <<>>, dryRun |-> FALSE, skipValidation |-> FALSE,
     statDir |-> FALSE, wpath |-> <<>>, fd |-> <<>>,
     original |-> <<>>, modified |-> <<>>, diff |-> <<>>,
     head |-> 0, tail |-> 0, text |-> <<>>, sections |-> <<>>,
     pattern |-> <<>>, excludePatterns |-> <<>>, stack |-> <<>>,
     results |-> <<>>, visited |-> {}, seen |-> {}, turns |-> 0,
     result |-> "none", touched |-> {}]

Off == Idle(0)

Touch(r, op, at) == r.touched \cup {[op |-> op, at |-> at]}

\* a request is taken off the transport; errors counts the failure results
\* this slot has sent so far
Accept(r) == [Idle(r.left - 1) EXCEPT !.errors = r.errors]

\* the return of a handler: { content } without the error flag
Returned(r) == [r EXCEPT !.pc = "done", !.result = "ok", !.isError = FALSE]

\* an error that leaves the handler uncaught ends the process
Uncaught(r, error) == [r EXCEPT !.pc = "exit", !.result = error]

\* the catch of the dispatcher: { content: "Error: ...", isError: true }
Caught(r, error) ==
    [r EXCEPT !.pc = "done", !.result = error, !.isError = TRUE]

Finish(r, result) ==
    IF result = "ok" THEN Returned(r) ELSE Caught(r, result)

\* the text of the tool-level failure for an errno the handler maps
ErrorOf(code) ==
    IF code = "ENOENT" THEN "NotFound"
    ELSE IF code = "ENOTEMPTY" THEN "NotEmpty"
    ELSE "Other"

\* slot i is free and a request may still arrive on it
Ready(i) == req[i].pc = "idle" /\ req[i].left > 0

\* the switch of the dispatcher: argument parsing succeeded, the handler is
\* about to call validatePath on its first path
Call(i, tool, paths, content, recursive, edits, dryRun, skipValidation) ==
    /\ Ready(i)
    /\ req' = [req EXCEPT ![i] =
                 [Accept(req[i]) EXCEPT
                    !.pc = "validate", !.tool = tool, !.paths = paths,
                    !.content = content, !.recursive = recursive,
                    !.edits = edits, !.dryRun = dryRun,
                    !.skipValidation = skipValidation]]
    /\ UNCHANGED <<fs, preview, interposed>>

\* a preview (the last dry run) stands until the filesystem is written
Written ==
    /\ preview' = IF fs' = fs THEN preview ELSE <<>>
    /\ UNCHANGED interposed

CallReadFile(i, p) ==
    Call(i, "read_file", <<p>>, <<>>, FALSE, <<>>, FALSE, FALSE)

CallWriteFile(i, p, content) ==
    Call(i, "write_file", <<p>>, content, FALSE, <<>>, FALSE, FALSE)

CallDeleteFile(i, p, recursive) ==
    Call(i, "delete_file", <<p>>, <<>>, recursive, <<>>, FALSE, FALSE)

CallMoveFile(i, source, destination) ==
    Call(i, "move_file", <<source, destination>>, <<>>, FALSE, <<>>, FALSE, FALSE)

CallEditFile(i, p, edits, dryRun, skipValidation) ==
    Call(i, "edit_file", <<p>>, <<>>, FALSE, edits, dryRun, skipValidation)

\* the path the handler is validating, or failed to validate
Current(r) == r.paths[Len(r.valid) + 1]

Validating(r) == r.tool # "none" /\ Len(r.valid) < Len(r.paths)

\* after a successful validatePath: the next path to validate, or the
\* handler's first filesystem call.  via records the branch that returned.
Validated(r, p, branch) ==
    [r EXCEPT !.valid = Append(r.valid, p),
              !.via = Append(r.via, branch),
              !.pc = IF Len(r.valid) + 1 < Len(r.paths) THEN "validate" ELSE "op"]

\* validatePath up to the await of fs.realpath(absolute)
Authorize(i) ==
    /\ req[i].pc = "validate"
    /\ LET out == validatePath(fs, Current(req[i])) IN
       req' = [req EXCEPT ![i] =
                 IF out.state = "pass" THEN Validated(req[i], out.path, "real")
                 ELSE IF out.state = "parent"
                      THEN [req[i] EXCEPT !.pc = "validateParent",
                                          !.absolute = out.path]
                      ELSE Finish(req[i], out.error)]
    /\ UNCHANGED <<fs, preview, interposed>>

\* validatePath after the await of fs.realpath(parentDir)
AuthorizeParent(i) ==
    /\ req[i].pc = "validateParent"
    /\ LET out == validateParent(fs, req[i].absolute) IN
       req' = [req EXCEPT ![i] =
                 IF out.state = "pass" THEN Validated(req[i], out.path, "parent")
                 ELSE Finish(req[i], out.error)]
    /\ UNCHANGED <<fs, preview, interposed>>

\* the line read_file puts between the head and the tail
Ellipsis == <<"... (middle content omitted) ...">>

\* lines.slice(0, n)
SliceHead(lines, n) == SubSeq(lines, 1, IF n < Len(lines) THEN n ELSE Len(lines))

\* lines.slice(-n), n > 0
SliceTail(lines, n) ==
    SubSeq(lines, (IF n < Len(lines) THEN Len(lines) - n ELSE 0) + 1, Len(lines))

\* lines 1020-1024: head lines, the separator unless they reach the tail,
\* tail lines
HeadAndTail(lines, headLines, tailLines, tail) ==
    JoinLines(headLines
              \o (IF Len(headLines) + tail >= Len(lines) THEN <<>>
                  ELSE <<Ellipsis>>)
              \o tailLines)

\* lines 1016-1048: the text read_file returns; an absent head or tail is 0
ReadResult(content, lines, head, tail) ==
    IF head # 0 /\ tail # 0
    THEN HeadAndTail(lines, SliceHead(lines, head), SliceTail(lines, tail), tail)
    ELSE IF tail # 0 THEN JoinLines(SliceTail(lines, tail))
    ELSE IF head # 0 THEN JoinLines(SliceHead(lines, head))
    ELSE content

\* read_file with head and tail: argument parsing
CallReadFileLines(i, p, head, tail) ==
    /\ Ready(i)
    /\ req' = [req EXCEPT ![i] =
                 [Accept(req[i]) EXCEPT
                    !.pc = "validate", !.tool = "read_file", !.paths = <<p>>,
                    !.head = head, !.tail = tail]]
    /\ UNCHANGED <<fs, preview, interposed>>

\* read_file: fs.readFile(validPath)
ReadFile(i) ==
    /\ req[i].pc = "op"
    /\ req[i].tool = "read_file"
    /\ LET r == realpath(fs, req[i].valid[1]) IN
       req' = [req EXCEPT ![i] =
                 IF ~r.ok THEN Finish(req[i], ErrorOf(r.code))
                 ELSE IF NodeAt(fs, r.path).type # "file"
                      THEN Finish(req[i], "Other")
                      ELSE [Finish(req[i], "ok") EXCEPT
                              !.touched = Touch(req[i], "read", r.path),
                              !.original = fs[r.path].data,
                              !.text = ReadResult(fs[r.path].data,
                                                  SplitLines(fs[r.path].data),
                                                  req[i].head, req[i].tail)]]
    /\ UNCHANGED <<fs, preview, interposed>>

(***************************************************************************)
(* run_command                                                             *)
(***************************************************************************)
MaxTicks == 2

Ntilde == <<"~">>

\* os.homedir() and process.cwd() of the server process
HomeDir == <<Nr>>

ProcessCwd == <<No>>

expandHome(w) ==
    IF w.kind = "home" THEN Given("absolute", HomeDir \o w.parts) ELSE w

\* validatePath: path.resolve of the expanded argument, against
\* process.cwd() when it is not absolute
AbsoluteOf(w) ==
    IF w.kind = "absolute" THEN PathResolve(w.parts)
    ELSE PathResolve(ProcessCwd \o w.parts)

\* the path the operating system follows for the cwd option of exec: the
\* string as given, where ~ is a name like any other
ChdirPath(w) ==
    IF w.kind = "absolute" THEN w.parts
    ELSE IF w.kind = "home" THEN ProcessCwd \o <<Ntilde>> \o w.parts
    ELSE ProcessCwd \o w.parts

\* let cwd = workingDirectory; if (!cwd) cwd = allowedDirectories[0]
CwdOption(w) ==
    IF w.kind = "absent" THEN allowedDirectories[1] ELSE ChdirPath(w)

\* the dispatcher parsed the arguments; runCommand calls validatePath on a
\* working directory that was given and goes straight to exec otherwise
CallRunCommand(i, w, timeout, exits, after) ==
    /\ Ready(i)
    /\ req' = [req EXCEPT ![i] =
                 [Accept(req[i]) EXCEPT
                    !.pc = IF w.kind = "absent" THEN "op" ELSE "validate",
                    !.tool = "run_command",
                    !.paths = IF w.kind = "absent" THEN <<>>
                              ELSE <<AbsoluteOf(expandHome(w))>>,
                    !.cmd = [NoCommand EXCEPT !.workingDirectory = w,
                                              !.timeout = timeout,
                                              !.exits = exits,
                                              !.after = after]]]
    /\ UNCHANGED <<fs, preview, interposed>>

\* exec rejects a timeout that is not a non-negative integer, and the
\* spawn fails where the cwd option does not lead to a directory
Spawned(r, f, real) ==
    IF r.cmd.timeout < 0 THEN Finish(r, "CommandFailed")
    ELSE IF ~real.ok THEN Finish(r, "CommandFailed")
    ELSE IF NodeAt(f, real.path).type # "dir" THEN Finish(r, "CommandFailed")
    ELSE [r EXCEPT !.pc = "run", !.cmd.spawned = TRUE, !.cmd.at = real.path]

\* execAsync(command, { cwd, timeout, ... })
Spawn(i) ==
    /\ req[i].pc = "op"
    /\ req[i].tool = "run_command"
    /\ req' = [req EXCEPT ![i] =
                 Spawned(req[i], fs,
                         realpath(fs, CwdOption(req[i].cmd.workingDirectory)))]
    /\ UNCHANGED <<fs, preview, interposed>>

\* time passes for the child process
Tick(i) ==
    /\ req[i].pc = "run"
    /\ req[i].cmd.elapsed < MaxTicks
    /\ req' = [req EXCEPT ![i].cmd.elapsed = @ + 1]
    /\ UNCHANGED <<fs, preview, interposed>>

\* the child exits by itself and runCommand returns its output
ProcessExit(i) ==
    /\ req[i].pc = "run"
    /\ req[i].cmd.exits
    /\ req[i].cmd.elapsed >= req[i].cmd.after
    /\ req' = [req EXCEPT ![i] = Finish(req[i], "ok")]
    /\ UNCHANGED <<fs, preview, interposed>>

\* exec arms its timer only for a timeout above 0; when it runs out the
\* child is killed and runCommand throws with the killed note
TimeoutKill(i) ==
    /\ req[i].pc = "run"
    /\ req[i].cmd.timeout > 0
    /\ req[i].cmd.elapsed >= req[i].cmd.timeout
    /\ req' = [req EXCEPT ![i] =
                 [Finish(req[i], "CommandFailed") EXCEPT !.cmd.killed = TRUE]]
    /\ UNCHANGED <<fs, preview, interposed>>

(***************************************************************************)
(* create_directory                                                        *)
(***************************************************************************)
\* mkdir of one missing directory under the parent that mkdir -p reached
MkdirUnder(made, name) ==
    IF ~made.ok THEN made
    ELSE IF Exists(made.fs, Append(made.at, name))
    THEN [ok |-> FALSE, fs |-> made.fs, at |-> <<>>, code |-> "EEXIST"]
    ELSE [ok |-> TRUE, fs |-> Put(made.fs, Append(made.at, name), DirNode),
          at |-> Append(made.at, name), code |-> "none"]

\* fs.mkdir(p, { recursive: true }) where p resolves
MkdirExisting(f, at) ==
    IF NodeAt(f, at).type = "dir"
    THEN [ok |-> TRUE, fs |-> f, at |-> at, code |-> "none"]
    ELSE [ok |-> FALSE, fs |-> f, at |-> <<>>, code |-> "EEXIST"]

\* fs.mkdir(p, { recursive: true }): the directories missing on the way
\* are made from the outermost in, an existing directory is left as it is
RECURSIVE MkdirRecursive(_, _)
MkdirResolved(f, p, r) ==
    IF r.ok THEN MkdirExisting(f, r.path)
    ELSE IF r.code = "ENOENT" /\ p # <<>>
    THEN MkdirUnder(MkdirRecursive(f, dirname(p)), basename(p))
    ELSE [ok |-> FALSE, fs |-> f, at |-> <<>>, code |-> r.code]

MkdirRecursive(f, p) == MkdirResolved(f, p, realpath(f, p))

CallCreateDirectory(i, p) ==
    Call(i, "create_directory", <<p>>, <<>>, FALSE, <<>>, FALSE, FALSE)

\* what create_directory returns or throws after fs.mkdir
Created(r, made) ==
    IF made.ok
    THEN [Finish(r, "ok") EXCEPT !.touched = Touch(r, "mkdir", made.at)]
    ELSE Finish(r, ErrorOf(made.code))

\* create_directory: fs.mkdir(validPath, { recursive: true })
CreateDirectory(i) ==
    /\ req[i].pc = "op"
    /\ req[i].tool = "create_directory"
    /\ req' = [req EXCEPT ![i] =
                 Created(req[i], MkdirRecursive(fs, req[i].valid[1]))]
    /\ fs' = MkdirRecursive(fs, req[i].valid[1]).fs
    /\ Written

(***************************************************************************)
(* search_files.  minimatch is modelled for patterns made of literal        *)
(* characters, "*" inside a segment, "/" and whole "**" segments.           *)
(***************************************************************************)
\* String.prototype.split on a one-character separator
RECURSIVE SplitOn(_, _)
SplitOn(s, sep) ==
    LET i == IndexOf(s, <<sep>>) IN
    IF i = -1 THEN <<s>>
    ELSE <<SubSeq(s, 1, i)>> \o SplitOn(SubSeq(s, i + 2, Len(s)), sep)

\* the lower-case form of a character, for the capitals the inputs use
Lower(c) ==
    IF c = "J" THEN "j" ELSE IF c = "S" THEN "s" ELSE IF c = "D" THEN "d" ELSE c

\* String.prototype.toLowerCase
ToLowerCase(s) == [k \in 1..Len(s) |-> Lower(s[k])]

\* one path segment against one pattern segment: "*" is any run of
\* characters, everything else stands for itself
RECURSIVE GlobSegment(_, _)
GlobSegment(name, pat) ==
    IF pat = <<>> THEN name = <<>>
    ELSE IF pat[1] = "*"
         THEN \/ GlobSegment(name, Tail(pat))
              \/ name # <<>> /\ GlobSegment(Tail(name), pat)
         ELSE /\ name # <<>>
              /\ name[1] = pat[1]
              /\ GlobSegment(Tail(name), Tail(pat))

\* with dot: true a segment pattern matches dotfiles, but a wildcard
\* matches neither the empty segment nor "." and ".."
SegmentMatches(name, pat) ==
    /\ GlobSegment(name, pat)
    /\ Includes(pat, <<"*">>) => name \notin {<<>>, Dot, DotDot}

GlobStar == <<"*", "*">>

\* the segments of a path against the segments of a pattern; "**" takes any
\* number of segments, and needs one to be left when it is reached
RECURSIVE MatchParts(_, _)
MatchParts(file, pattern) ==
    IF pattern = <<>> THEN file = <<>>
    ELSE IF file = <<>> THEN FALSE
    ELSE IF pattern[1] = GlobStar
         THEN \/ Len(pattern) = 1
              \/ \E k \in 0..(Len(file) - 1) :
                    MatchParts(SubSeq(file, k + 1, Len(file)), Tail(pattern))
         ELSE /\ SegmentMatches(file[1], pattern[1])
              /\ MatchParts(Tail(file), Tail(pattern))

\* minimatch(str, pattern, { nocase, dot: true })
Minimatch(str, pattern, nocase) ==
    IF nocase
    THEN MatchParts(SplitOn(ToLowerCase(str), "/"),
                    SplitOn(ToLowerCase(pattern), "/"))
    ELSE MatchParts(SplitOn(str, "/"), SplitOn(pattern, "/"))

\* lines 227-230: a bare exclude name stands for anything below a
\* directory of that name
shouldExclude(relativePath, excludePatterns) ==
    \E k \in 1..Len(excludePatterns) :
        Minimatch(relativePath,
                  IF Includes(excludePatterns[k], <<"*">>)
                  THEN excludePatterns[k]
                  ELSE <<"*", "*", "/">> \o excludePatterns[k] \o <<"/", "*", "*">>,
                  FALSE)

\* pattern.split('*').filter(p => p.length > 0)
patternParts(pattern) == SelectSeq(SplitOn(pattern, "*"), LAMBDA part : Len(part) > 0)

\* lines 266-269: every fragment occurs in the entry name or the relative
\* path, letter case aside
EveryPartOccurs(parts, name, relativePath) ==
    \A k \in 1..Len(parts) :
        \/ Includes(ToLowerCase(name), ToLowerCase(parts[k]))
        \/ Includes(ToLowerCase(relativePath), ToLowerCase(parts[k]))

\* the fallback taken for any number of fragments
PartialMatchAnyCount(pattern, name, relativePath) ==
    /\ Includes(pattern, <<"*">>)
    /\ EveryPartOccurs(patternParts(pattern), name, relativePath)

\* lines 262-271: strategy 4
PartialMatch(pattern, name, relativePath) ==
    /\ Includes(pattern, <<"*">>)
    /\ Len(patternParts(pattern)) > 1
    /\ EveryPartOccurs(patternParts(pattern), name, relativePath)

\* path.join(currentPath, entry.name) as a string
FullPath(full) == <<"/">> \o JoinSep(full)

\* lines 237-271: the four strategies, in order until one matches
isMatch(pattern, name, relativePath, fullPath) ==
    \/ Minimatch(name, pattern, TRUE)
    \/ Minimatch(relativePath, pattern, TRUE)
    \/ Minimatch(fullPath, pattern, TRUE)
    \/ PartialMatch(pattern, name, relativePath)

\* a directory that can be traversed but not listed
UnreadableDir == [type |-> "dir", target |-> <<>>, data |-> <<"EACCES">>]

\* fs.readdir(currentPath, { withFileTypes: true }); a failure is logged
\* and leaves the directory without entries (lines 288-290)
readdir(f, currentPath) ==
    IF ~Exists(f, currentPath) THEN {}
    ELSE IF f[currentPath].type # "dir" \/ f[currentPath] = UnreadableDir THEN {}
    ELSE Children(f, currentPath)

\* validatePath through both of its awaits
validatePathWhole(f, requestedPath) ==
    IF validatePath(f, requestedPath).state = "parent"
    THEN validateParent(f, validatePath(f, requestedPath).path)
    ELSE validatePath(f, requestedPath)

\* an entry is kept whether validatePath accepts it or not
KeptUnvalidated(f, rootPath, excludePatterns, full) ==
    ~shouldExclude(PathRelative(rootPath, full), excludePatterns)

\* lines 220-235: the entry passes validatePath and no exclude pattern
\* matches its relative path
Kept(f, rootPath, excludePatterns, full) ==
    /\ validatePathWhole(f, full).state = "pass"
    /\ ~shouldExclude(PathRelative(rootPath, full), excludePatterns)

\* lines 237-271 on the entry at full
Matched(rootPath, pattern, full) ==
    isMatch(pattern, full[Len(full)], PathRelative(rootPath, full), FullPath(full))

\* the entry stays in the list it was taken from
WithoutEntryKept(stack, full) == stack

\* the frames of the walk with the entry taken out of the innermost one
WithoutEntry(stack, full) ==
    IF stack[1] = {full} THEN Tail(stack) ELSE <<stack[1] \ {full}>> \o Tail(stack)

\* the entries of a directory are searched after those of its siblings
DescendLater(f, stack, full) ==
    IF f[full].type = "dir" /\ readdir(f, full) # {}
    THEN WithoutEntry(stack, full) \o <<readdir(f, full)>>
    ELSE WithoutEntry(stack, full)

\* lines 279-281: entry.isDirectory() and the nested search(fullPath)
Descend(f, stack, full) ==
    IF f[full].type = "dir" /\ readdir(f, full) # {}
    THEN <<readdir(f, full)>> \o WithoutEntry(stack, full)
    ELSE WithoutEntry(stack, full)

\* search_files: argument parsing
CallSearchFiles(i, p, pattern, excludePatterns) ==
    /\ Ready(i)
    /\ req' = [req EXCEPT ![i] =
                 [Accept(req[i]) EXCEPT
                    !.pc = "validate", !.tool = "search_files",
                    !.paths = <<p>>, !.pattern = pattern,
                    !.excludePatterns = excludePatterns]]
    /\ UNCHANGED <<fs, preview, interposed>>

\* searchFiles: search(rootPath) reads the root directory
SearchStart(i) ==
    /\ req[i].pc = "op"
    /\ req[i].tool = "search_files"
    /\ req' = [req EXCEPT ![i] =
                 [req[i] EXCEPT
                    !.pc = "walk",
                    !.stack = IF readdir(fs, req[i].valid[1]) = {} THEN <<>>
                              ELSE <<readdir(fs, req[i].valid[1])>>]]
    /\ UNCHANGED <<fs, preview, interposed>>

\* searchFiles: one turn of the loop over the entries of the directory
\* being read, in whatever order readdir lists them
SearchEntry(i, full) ==
    /\ req[i].pc = "walk"
    /\ req[i].stack # <<>>
    /\ full \in req[i].stack[1]
    /\ req' = [req EXCEPT ![i] =
                 IF Kept(fs, req[i].valid[1], req[i].excludePatterns, full)
                 THEN [req[i] EXCEPT
                         !.seen = @ \cup {full},
                         !.turns = @ + 1,
                         !.visited = @ \cup {full},
                         !.results = IF Matched(req[i].valid[1], req[i].pattern, full)
                                     THEN Append(@, full) ELSE @,
                         !.stack = Descend(fs, req[i].stack, full)]
                 ELSE [req[i] EXCEPT
                         !.seen = @ \cup {full},
                         !.turns = @ + 1,
                         !.stack = WithoutEntry(req[i].stack, full)]]
    /\ UNCHANGED <<fs, preview, interposed>>

\* search_files: the walk is over, the results are joined and returned
SearchReturn(i) ==
    /\ req[i].pc = "walk"
    /\ req[i].stack = <<>>
    /\ req' = [req EXCEPT ![i] = Finish(req[i], "ok")]
    /\ UNCHANGED <<fs, preview, interposed>>

\* read_multiple_files: argument parsing; one async callback per path
CallReadMany(i, paths) ==
    /\ Ready(i)
    /\ req' = [req EXCEPT ![i] =
                 [Accept(req[i]) EXCEPT
                    !.pc = "many", !.tool = "read_multiple_files",
                    !.paths = paths,
                    !.sections = [k \in 1..Len(paths) |->
                                    [pc |-> "validate", path |-> <<>>,
                                     error |-> "none", text |-> <<>>]]]]
    /\ UNCHANGED <<fs, preview, interposed>>

\* line 1064: the catch of a callback turns the error into its section
SectionError(error) ==
    [pc |-> "done", path |-> <<>>, error |-> error, text |-> <<>>]

\* lines 1059-1060: what validatePath leaves a callback with
SectionValidated(out) ==
    IF out.state = "pass"
    THEN [pc |-> "read", path |-> out.path, error |-> "none", text |-> <<>>]
    ELSE IF out.state = "parent"
    THEN [pc |-> "validateParent", path |-> out.path, error |-> "none",
          text |-> <<>>]
    ELSE SectionError(out.error)

\* lines 1060-1061: fs.readFile(validPath) resolved at r, or rejected
SectionRead(f, r) ==
    IF ~r.ok THEN SectionError(ErrorOf(r.code))
    ELSE IF NodeAt(f, r.path).type # "file" THEN SectionError("Other")
    ELSE [pc |-> "done", path |-> r.path, error |-> "none",
          text |-> NodeAt(f, r.path).data]

\* one callback of lines 1057-1066 from one await to the next
SectionStep(f, requested, sec) ==
    IF sec.pc = "validate" THEN SectionValidated(validatePath(f, requested))
    ELSE IF sec.pc = "validateParent"
    THEN SectionValidated(validateParent(f, sec.path))
    ELSE SectionRead(f, realpath(f, sec.path))

\* the request with section k replaced; a section that read a file counts
\* as a read of the request
WithSection(r, k, sec) ==
    [r EXCEPT !.sections[k] = sec,
              !.touched = IF sec.pc = "done" /\ sec.error = "none"
                          THEN Touch(r, "read", sec.path) ELSE r.touched]

\* a failing path rejects the whole batch
ReadManyStepAbort(i, k) ==
    /\ req[i].pc = "many"
    /\ k \in 1..Len(req[i].paths)
    /\ req[i].sections[k].pc # "done"
    /\ req' = [req EXCEPT ![i] =
                 Finish(WithSection(req[i], k,
                                    SectionStep(fs, req[i].paths[k],
                                                req[i].sections[k])),
                        IF SectionStep(fs, req[i].paths[k],
                                       req[i].sections[k]).error = "none"
                        THEN "none" ELSE "Other")]
    /\ UNCHANGED <<fs, preview, interposed>>

\* read_multiple_files: the callback of path k runs to its next await
ReadManyStep(i, k) ==
    /\ req[i].pc = "many"
    /\ k \in 1..Len(req[i].paths)
    /\ req[i].sections[k].pc # "done"
    /\ req' = [req EXCEPT ![i] =
                 WithSection(req[i], k,
                             SectionStep(fs, req[i].paths[k],
                                         req[i].sections[k]))]
    /\ UNCHANGED <<fs, preview, interposed>>

\* read_multiple_files: Promise.all resolved, the sections are joined
ReadManyReturn(i) ==
    /\ req[i].pc = "many"
    /\ \A k \in 1..Len(req[i].paths) : req[i].sections[k].pc = "done"
    /\ req' = [req EXCEPT ![i] = Finish(req[i], "ok")]
    /\ UNCHANGED <<fs, preview, interposed>>

\* fs.writeFile, first half: open(path, O_WRONLY | O_CREAT | O_TRUNC)
OpenForWrite(i) ==
    /\ req[i].pc = "open"
    /\ LET t == OpenTarget(fs, req[i].wpath, MaxLinkHops) IN
       IF ~t.ok
       THEN /\ req' = [req EXCEPT ![i] =
                         IF req[i].tool = "edit_file"
                         THEN [req[i] EXCEPT !.pc = "cleanup",
                                             !.result = ErrorOf(t.code)]
                         ELSE Finish(req[i], ErrorOf(t.code))]
            /\ fs' = fs
       ELSE /\ fs' = Put(fs, t.path, FileNode(<<>>))
            /\ req' = [req EXCEPT ![i] =
                         [req[i] EXCEPT !.pc = "flush", !.fd = t.path,
                            !.touched = Touch(req[i], "write", t.path)]]
    /\ Written

\* write_file: fs.writeFile(validPath, content) is called on the path
\* validatePath returned
WriteFile(i) ==
    /\ req[i].pc = "op"
    /\ req[i].tool = "write_file"
    /\ req' = [req EXCEPT ![i] =
                 [req[i] EXCEPT !.pc = "open", !.wpath = req[i].valid[1],
                                !.modified = req[i].content]]
    /\ UNCHANGED <<fs, preview, interposed>>

\* fs.writeFile, second half: the data reaches the opened file
FlushWrite(i) ==
    /\ req[i].pc = "flush"
    /\ fs' = IF Exists(fs, req[i].fd) /\ NodeAt(fs, req[i].fd).type = "file"
             THEN Put(fs, req[i].fd, FileNode(req[i].modified))
             ELSE fs
    /\ req' = [req EXCEPT ![i] =
                 IF req[i].tool = "edit_file"
                 THEN [req[i] EXCEPT !.pc = "rename"]
                 ELSE Finish(req[i], "ok")]
    /\ Written

\* delete_file: fs.stat(validPath)
StatForDelete(i) ==
    /\ req[i].pc = "op"
    /\ req[i].tool = "delete_file"
    /\ LET r == realpath(fs, req[i].valid[1]) IN
       req' = [req EXCEPT ![i] =
                 IF ~r.ok THEN Finish(req[i], ErrorOf(r.code))
                 ELSE [req[i] EXCEPT !.pc = "remove",
                         !.statDir = (NodeAt(fs, r.path).type = "dir")]]
    /\ UNCHANGED <<fs, preview, interposed>>

\* every directory is removed with its contents, asked for or not
RecursivelyAnyDir(r) == r.statDir

\* line 1097: stats.isDirectory() && parsed.data.recursive
Recursively(r) == r.statDir /\ r.recursive

\* delete_file: fs.rm(recursive, force), fs.rmdir or fs.unlink, chosen by
\* what stat reported
Remove(i) ==
    /\ req[i].pc = "remove"
    /\ LET e == EntryOf(fs, req[i].valid[1])
           there == e.ok /\ e.path # <<>> /\ Exists(fs, e.path)
           gone == IF NodeAt(fs, e.path).type = "dir"
                   THEN Subtree(fs, e.path) ELSE {e.path}
           removed(set) ==
               [Finish(req[i], "ok") EXCEPT
                  !.touched = req[i].touched \cup
                              {[op |-> "remove", at |-> q] : q \in set}]
       IN  IF Recursively(req[i])
           THEN IF ~e.ok \/ e.path = <<>> THEN /\ req' = [req EXCEPT ![i] = Finish(req[i], "Other")]
                                               /\ fs' = fs
                ELSE IF ~there THEN /\ req' = [req EXCEPT ![i] = Finish(req[i], "ok")]
                                    /\ fs' = fs
                ELSE /\ fs' = Drop(fs, gone)
                     /\ req' = [req EXCEPT ![i] = removed(gone)]
           ELSE IF ~e.ok \/ ~there
                THEN /\ req' = [req EXCEPT ![i] =
                                  Finish(req[i], IF e.ok THEN "NotFound"
                                                 ELSE ErrorOf(e.code))]
                     /\ fs' = fs
           ELSE IF req[i].statDir
                THEN IF fs[e.path].type # "dir"
                     THEN /\ req' = [req EXCEPT ![i] = Finish(req[i], "Other")]
                          /\ fs' = fs
                     ELSE IF Children(fs, e.path) # {}
                          THEN /\ req' = [req EXCEPT ![i] = Finish(req[i], "NotEmpty")]
                               /\ fs' = fs
                          ELSE /\ fs' = Drop(fs, {e.path})
                               /\ req' = [req EXCEPT ![i] = removed({e.path})]
                ELSE IF fs[e.path].type = "dir"
                     THEN /\ req' = [req EXCEPT ![i] = Finish(req[i], "Other")]
                          /\ fs' = fs
                     ELSE /\ fs' = Drop(fs, {e.path})
                          /\ req' = [req EXCEPT ![i] = removed({e.path})]
    /\ Written

\* move_file: fs.rename(validSourcePath, validDestPath)
MoveFile(i) ==
    /\ req[i].pc = "op"
    /\ req[i].tool = "move_file"
    /\ LET code == RenameCheck(fs, req[i].valid[1], req[i].valid[2])
           from == EntryOf(fs, req[i].valid[1]).path
           to == EntryOf(fs, req[i].valid[2]).path
       IN  IF code = "same"
           THEN /\ req' = [req EXCEPT ![i] = Finish(req[i], "ok")]
                /\ fs' = fs
           ELSE IF code # "none"
           THEN /\ req' = [req EXCEPT ![i] = Finish(req[i], ErrorOf(code))]
                /\ fs' = fs
           ELSE /\ fs' = RenameApply(fs, from, to)
                /\ req' = [req EXCEPT ![i] =
                             [Finish(req[i], "ok") EXCEPT
                                !.touched = req[i].touched \cup
                                   {[op |-> "rename", at |-> from],
                                    [op |-> "write", at |-> to]}]]
    /\ Written


\* a temporary name that does not tell two requests apart
SharedTemp(i, tempPath) == TRUE

\* the random suffix of a temporary file is taken to be fresh
FreshTemp(i, tempPath) ==
    /\ ~Exists(fs, tempPath)
    /\ \A k \in Clients \ {i} : req[k].wpath # tempPath

\* applyFileEdits after the edits: the error thrown, the dry-run return, or
\* the temporary file named and fs.writeFile(tempPath) awaited
ReportOrPersist(i, filePath, seen, out) ==
    IF out.error # "none"
    THEN /\ req' = [req EXCEPT ![i] = Finish(seen, out.error)]
         /\ preview' = preview
    ELSE IF ~Persist(req[i].dryRun)
    THEN /\ req' = [req EXCEPT ![i] = Finish(seen, "ok")]
         /\ preview' = << [path |-> filePath,
                           edits |-> req[i].edits,
                           skipValidation |-> req[i].skipValidation,
                           diff |-> out.diff] >>
    ELSE /\ \E hex \in Hex :
              /\ FreshTemp(i, TempPath(filePath, hex))
              /\ req' = [req EXCEPT ![i] =
                           [seen EXCEPT !.pc = "open",
                                        !.wpath = TempPath(filePath, hex)]]
         /\ preview' = preview

\* what the request holds once the file is read and the edits are computed
Seen(r, at, data, out) ==
    [r EXCEPT !.touched = Touch(r, "read", at),
              !.original = data,
              !.modified = out.modified,
              !.diff = out.diff]

\* applyFileEdits with the bytes read at the resolved location
EditRead(i, filePath, at, data, out) ==
    ReportOrPersist(i, filePath, Seen(req[i], at, data, out), out)

\* edit_file: applyFileEdits from fs.readFile(filePath) to the await of
\* fs.writeFile(tempPath), or to its return or throw before that
ReadAndEdit(i) ==
    /\ req[i].pc = "op"
    /\ req[i].tool = "edit_file"
    /\ LET filePath == req[i].valid[1]
           r == realpath(fs, filePath)
       IN  IF ~r.ok
           THEN /\ req' = [req EXCEPT ![i] = Finish(req[i], ErrorOf(r.code))]
                /\ preview' = preview
           ELSE IF NodeAt(fs, r.path).type # "file"
           THEN /\ req' = [req EXCEPT ![i] = Finish(req[i], "Other")]
                /\ preview' = preview
           ELSE EditRead(i, filePath, r.path, NodeAt(fs, r.path).data,
                         EditOutcome(filePath, NodeAt(fs, r.path).data,
                                     req[i].edits, req[i].skipValidation))
    /\ UNCHANGED <<fs, interposed>>

\* applyFileEdits: fs.rename(tempPath, filePath)
RenameTemp(i) ==
    /\ req[i].pc = "rename"
    /\ LET code == RenameCheck(fs, req[i].wpath, req[i].valid[1])
           from == EntryOf(fs, req[i].wpath).path
           to == EntryOf(fs, req[i].valid[1]).path
       IN  IF code = "same"
           THEN /\ req' = [req EXCEPT ![i] = Finish(req[i], "ok")]
                /\ fs' = fs
           ELSE IF code # "none"
           THEN /\ req' = [req EXCEPT ![i] =
                             [req[i] EXCEPT !.pc = "cleanup",
                                            !.result = ErrorOf(code)]]
                /\ fs' = fs
           ELSE /\ fs' = RenameApply(fs, from, to)
                /\ req' = [req EXCEPT ![i] =
                             [Finish(req[i], "ok") EXCEPT
                                !.touched = req[i].touched \cup
                                   {[op |-> "rename", at |-> from],
                                    [op |-> "write", at |-> to]}]]
    /\ Written

\* the temporary file left behind
CleanupKeepTemp(i) ==
    /\ req[i].pc = "cleanup"
    /\ req' = [req EXCEPT ![i] = [req[i] EXCEPT !.pc = "done"]]
    /\ UNCHANGED <<fs, preview, interposed>>

\* applyFileEdits, catch: fs.unlink(tempPath), its failure ignored, then the
\* error is thrown again
Cleanup(i) ==
    /\ req[i].pc = "cleanup"
    /\ LET e == EntryOf(fs, req[i].wpath)
           there == e.ok /\ e.path # <<>> /\ Exists(fs, e.path)
       IN  IF there /\ NodeAt(fs, e.path).type # "dir"
           THEN /\ fs' = Drop(fs, {e.path})
                /\ req' = [req EXCEPT ![i] =
                             [req[i] EXCEPT !.pc = "done",
                                !.touched = Touch(req[i], "remove", e.path)]]
           ELSE /\ fs' = fs
                /\ req' = [req EXCEPT ![i] = [req[i] EXCEPT !.pc = "done"]]
    /\ Written

\* applyFileEdits, catch: fs.unlink(tempPath) rejects and the empty catch
\* drops that; the first error is thrown again
CleanupFails(i) ==
    /\ req[i].pc = "cleanup"
    /\ req' = [req EXCEPT ![i] =
                 [req[i] EXCEPT !.pc = "done",
                    !.touched = Touch(req[i], "unlinkFailed", req[i].wpath)]]
    /\ UNCHANGED <<fs, preview, interposed>>

\* fs.writeFile rejects after the open (disk full, I/O error): the opened
\* file stays as the open left it
FailWrite(i) ==
    /\ req[i].pc = "flush"
    /\ req' = [req EXCEPT ![i] =
                 IF req[i].tool = "edit_file"
                 THEN [req[i] EXCEPT !.pc = "cleanup", !.result = "Other"]
                 ELSE Finish(req[i], "Other")]
    /\ UNCHANGED <<fs, preview, interposed>>

\* fs.rename(tempPath, filePath) rejects: nothing is renamed
FailRename(i) ==
    /\ req[i].pc = "rename"
    /\ req' = [req EXCEPT ![i] =
                 [req[i] EXCEPT !.pc = "cleanup", !.result = "Other"]]
    /\ UNCHANGED <<fs, preview, interposed>>

\* the handler's return or the catch of the dispatcher: the result is sent
\* and the slot takes the next request
Respond(i) ==
    /\ req[i].pc = "done"
    /\ req[i].left > 0
    /\ req' = [req EXCEPT ![i] =
                 [Idle(req[i].left) EXCEPT
                    !.errors = req[i].errors + IF req[i].isError THEN 1 ELSE 0]]
    /\ UNCHANGED <<fs, preview, interposed>>

ToolNames ==
    {"read_file", "read_multiple_files", "write_file", "delete_file",
     "edit_file", "create_directory", "list_directory", "search_files",
     "get_file_info", "move_file", "run_command", "list_allowed_directories"}

\* safeParse of the arguments fails and the case throws
CallInvalid(i, tool) ==
    /\ Ready(i)
    /\ req' = [req EXCEPT ![i] =
                 Finish([Accept(req[i]) EXCEPT !.tool = tool],
                        "InvalidArguments")]
    /\ UNCHANGED <<fs, preview, interposed>>

\* the default case of the switch
CallUnknown(i) ==
    /\ Ready(i)
    /\ req' = [req EXCEPT ![i] =
                 Finish([Accept(req[i]) EXCEPT !.tool = "unknown"],
                        "UnknownTool")]
    /\ UNCHANGED <<fs, preview, interposed>>

\* another process creates a symlink at a free name under a root, or points
\* an existing symlink under a root somewhere else, after a request has had
\* a path validated and before it has finished
Interpose(site, target, budget) ==
    /\ interposed < budget
    /\ \E i \in Clients : req[i].valid # <<>> /\ req[i].pc # "done"
    /\ LET e == EntryOf(fs, site) IN
       /\ e.ok
       /\ e.path # <<>>
       /\ \E d \in SeqToSet(allowedDirectories) : IsPrefix(d, e.path)
       /\ IF Exists(fs, e.path) THEN NodeAt(fs, e.path).type = "link" ELSE TRUE
       /\ fs' = Put(fs, e.path, LinkNode(target))
    /\ interposed' = interposed + 1
    /\ preview' = <<>>
    /\ UNCHANGED req

(***************************************************************************)
(* The path-guard specification: one request at a time on a tree with one  *)
(* symlink inside the root                                                 *)
(***************************************************************************)
RECURSIVE SeqsUpTo(_, _)
SeqsUpTo(S, n) ==
    IF n = 0 THEN {<<>>}
    ELSE LET shorter == SeqsUpTo(S, n - 1) IN
         shorter \cup {Append(q, x) : q \in shorter, x \in S}

BaseTree ==
    (<<Nr>> :> DirNode) @@
    (<<Nr, Nd>> :> DirNode) @@
    (<<Nr, Nd, Ns>> :> FileNode(<<"a">>)) @@
    (<<Nr, Nf>> :> FileNode(<<"a">>)) @@
    (<<Nr, Nddx>> :> FileNode(<<"a">>)) @@
    (<<Nrx>> :> DirNode) @@
    (<<No>> :> DirNode) @@
    (<<No, Ns>> :> FileNode(<<"a">>)) @@
    (<<No, Nb>> :> LinkNode(<<Nr, Nd>>))

LinkSite == <<Nr, Nl>>

LinkTargets ==
    {<<No>>, <<No, Ns>>, <<No, Nn>>, <<Nr, Nd>>, <<Nr, Nf>>, <<Nr, Nn>>,
     <<Nr, Nl>>}

Components == {Nd, Nl, Nf, Nn, Ns, Nb, Nddx, No, DotDot}

OutsidePaths == {<<No>>, <<No, Ns>>, <<No, Nn>>, <<Nrx>>, <<Nrx, Nn>>}

RequestPaths ==
    {Root \o q : q \in SeqsUpTo(Components, MaxPathLen)} \cup OutsidePaths

MoveDestinations ==
    {<<Nr, Nn>>, <<Nr, Nl>>, <<Nr, Nl, Nn>>, <<Nr, Nd, Nn>>, <<No, Nn>>}

NewContent == <<"b">>

E1 == [oldText |-> <<"a">>, newText |-> <<"b">>]
E2 == [oldText |-> <<"(">>, newText |-> <<>>]
E3 == [oldText |-> <<"a", " ", "\n", "b">>, newText |-> <<"(", "b", ")">>]
E4 == [oldText |-> <<"b">>, newText |-> <<"a", ")">>]

Edits == {E1, E2, E3, E4}

Init ==
    /\ fs \in {BaseTree} \cup {Put(BaseTree, LinkSite, LinkNode(t)) : t \in LinkTargets}
    /\ req = [i \in Clients |-> IF i = 1 THEN Idle(1) ELSE Off]
    /\ preview = <<>>
    /\ interposed = 0

Next ==
    \E i \in Clients :
        \/ Ready(i) /\ \E p \in RequestPaths : CallReadFile(i, p)
        \/ Ready(i) /\ \E p \in RequestPaths : CallWriteFile(i, p, NewContent)
        \/ Ready(i) /\ \E p \in RequestPaths, rec \in BOOLEAN : CallDeleteFile(i, p, rec)
        \/ Ready(i) /\ \E p \in RequestPaths, q \in MoveDestinations : CallMoveFile(i, p, q)
        \/ Ready(i) /\ \E p \in RequestPaths : CallEditFile(i, p, <<E1>>, FALSE, FALSE)
        \/ Authorize(i)
        \/ AuthorizeParent(i)
        \/ ReadFile(i)
        \/ WriteFile(i)
        \/ OpenForWrite(i)
        \/ FlushWrite(i)
        \/ StatForDelete(i)
        \/ Remove(i)
        \/ MoveFile(i)
        \/ ReadAndEdit(i)
        \/ RenameTemp(i)

Spec == Init /\ [][Next]_vars

(***************************************************************************)
(* The edit specification: edit_file requests on one file, one after the   *)
(* other                                                                   *)
(***************************************************************************)
MaxCalls == 2

Target == <<Nr, Nf>>

InitContents ==
    {<<"(", "a", ")">>,
     <<" ", "a", "\n", "b">>,
     <<"a", "\r", "\n", "b">>}

EditLists == SeqsUpTo(Edits, MaxEdits)

InitEdit ==
    /\ \E c \in InitContents : fs = Put(BaseTree, Target, FileNode(c))
    /\ req = [i \in Clients |-> IF i = 1 THEN Idle(MaxCalls) ELSE Off]
    /\ preview = <<>>
    /\ interposed = 0

NextEdit ==
    \E i \in Clients :
        \/ Ready(i) /\ \E edits \in EditLists, dryRun \in BOOLEAN, skip \in BOOLEAN :
               CallEditFile(i, Target, edits, dryRun, skip)
        \/ Authorize(i)
        \/ ReadAndEdit(i)
        \/ OpenForWrite(i)
        \/ FlushWrite(i)
        \/ RenameTemp(i)
        \/ Respond(i)

SpecEdit == InitEdit /\ [][NextEdit]_vars

(***************************************************************************)
(* The concurrent specification: two edit_file requests in flight on the   *)
(* same file                                                               *)
(***************************************************************************)
ConcContents == {<<"(", "a", ")">>, <<" ", "a", "\n", "b">>}

ConcEditLists == {<<E1>>, <<E2>>, <<E4>>, <<E1, E4>>}

InitConc ==
    /\ \E c \in ConcContents : fs = Put(BaseTree, Target, FileNode(c))
    /\ req = [i \in Clients |-> Idle(1)]
    /\ preview = <<>>
    /\ interposed = 0

NextConc ==
    \E i \in Clients :
        \/ Ready(i) /\ \E edits \in ConcEditLists, dryRun \in BOOLEAN, skip \in BOOLEAN :
               CallEditFile(i, Target, edits, dryRun, skip)
        \/ Authorize(i)
        \/ ReadAndEdit(i)
        \/ OpenForWrite(i)
        \/ FlushWrite(i)
        \/ RenameTemp(i)

SpecConc == InitConc /\ [][NextConc]_vars

(***************************************************************************)
(* The race specification: one mutating request, and another process that  *)
(* plants or retargets a symlink under the root while it runs              *)
(***************************************************************************)
MaxInterpose == 2

RacePaths == {<<Nr, Nn>>, <<Nr, Nl, Nn>>, <<Nr, Nl, Ns>>, <<Nr, Nf>>}

RaceSites == {<<Nr, Nn>>, <<Nr, Nl>>}

RaceTargets == {<<No>>, <<No, Ns>>, <<No, Nn>>}

InitRace ==
    /\ \E t \in {<<Nr>>, <<Nr, Nd>>} : fs = Put(BaseTree, LinkSite, LinkNode(t))
    /\ req = [i \in Clients |-> IF i = 1 THEN Idle(1) ELSE Off]
    /\ preview = <<>>
    /\ interposed = 0

NextRace ==
    \/ \E site \in RaceSites, target \in RaceTargets :
           Interpose(site, target, MaxInterpose)
    \/ \E i \in Clients :
           \/ Ready(i) /\ \E p \in RacePaths : CallWriteFile(i, p, NewContent)
           \/ Ready(i) /\ \E p \in RacePaths, rec \in BOOLEAN : CallDeleteFile(i, p, rec)
           \/ Ready(i) /\ \E p \in RacePaths, q \in RacePaths : CallMoveFile(i, p, q)
           \/ Ready(i) /\ \E p \in RacePaths : CallEditFile(i, p, <<E1>>, FALSE, FALSE)
           \/ Authorize(i)
           \/ AuthorizeParent(i)
           \/ WriteFile(i)
           \/ OpenForWrite(i)
           \/ FlushWrite(i)
           \/ StatForDelete(i)
           \/ Remove(i)
           \/ MoveFile(i)
           \/ ReadAndEdit(i)
           \/ RenameTemp(i)
           \/ Cleanup(i)

SpecRace == InitRace /\ [][NextRace]_vars


(***************************************************************************)
(* The fault specification: one request that writes or edits a file whose  *)
(* writes, renames and unlinks may fail, and one request that reads it     *)
(***************************************************************************)
Writer == 1

Reader == 2

WriteContents == {<<"b">>, <<"(", "b", ")">>}

InitFault ==
    /\ \E c \in InitContents : fs = Put(BaseTree, Target, FileNode(c))
    /\ req = [i \in Clients |-> Idle(1)]
    /\ preview = <<>>
    /\ interposed = 0

NextFault ==
    \/ Ready(Writer) /\ \E c \in WriteContents : CallWriteFile(Writer, Target, c)
    \/ Ready(Writer) /\ \E edits \in ConcEditLists, skip \in BOOLEAN :
           CallEditFile(Writer, Target, edits, FALSE, skip)
    \/ Ready(Reader) /\ CallReadFile(Reader, Target)
    \/ \E i \in Clients :
           \/ Authorize(i)
           \/ ReadFile(i)
           \/ WriteFile(i)
           \/ ReadAndEdit(i)
           \/ OpenForWrite(i)
           \/ FlushWrite(i)
           \/ FailWrite(i)
           \/ RenameTemp(i)
           \/ FailRename(i)
           \/ Cleanup(i)
           \/ CleanupFails(i)

SpecFault == InitFault /\ [][NextFault]_vars

(***************************************************************************)
(* The matching specification: single edits, previewed, over contents and  *)
(* texts that take the exact and the line-by-line strategy                 *)
(***************************************************************************)
MatchContents ==
    {<<"(", "a", ")", "a">>,
     <<"x", "\n", " ", " ", "a", "\n", " ", "a">>,
     <<"a", "\r", "\n", "b">>}

OldTexts ==
    {<<"a">>, <<"a", " ">>, <<"a", " ", "\n", "a">>, <<"z">>}

NewTexts ==
    {<<"b">>, <<"$", "&">>, <<"$", "$">>, <<>>,
     <<" ", "c", "\n", " ", " ", " ", "d">>}

MatchEdits == {[oldText |-> o, newText |-> n] : o \in OldTexts, n \in NewTexts}

InitMatch ==
    /\ \E c \in MatchContents : fs = Put(BaseTree, Target, FileNode(c))
    /\ req = [i \in Clients |-> IF i = 1 THEN Idle(1) ELSE Off]
    /\ preview = <<>>
    /\ interposed = 0

NextMatch ==
    \E i \in Clients :
        \/ Ready(i) /\ \E e \in MatchEdits : CallEditFile(i, Target, <<e>>, TRUE, TRUE)
        \/ Authorize(i)
        \/ ReadAndEdit(i)

SpecMatch == InitMatch /\ [][NextMatch]_vars

(***************************************************************************)
(* The move specification: move_file between existing and missing entries  *)
(* inside the allowed directory                                            *)
(***************************************************************************)
MoveSources == {Target, <<Nr, Nd>>, <<Nr, Nd, Ns>>, <<Nr, Nn>>}

MoveTargets == {Target, <<Nr, Nd>>, <<Nr, Nd, Ns>>, <<Nr, Nn>>, <<Nr, Nd, Nn>>}

InitMove ==
    /\ fs = Put(BaseTree, Target, FileNode(<<"b">>))
    /\ req = [i \in Clients |-> Idle(1)]
    /\ preview = <<>>
    /\ interposed = 0

NextMove ==
    \E i \in Clients :
        \/ Ready(i) /\ \E p \in MoveSources, q \in MoveTargets : CallMoveFile(i, p, q)
        \/ Authorize(i)
        \/ AuthorizeParent(i)
        \/ MoveFile(i)

SpecMove == InitMove /\ [][NextMove]_vars

(***************************************************************************)
(* The search specification: search_files over a tree with a symlink, a    *)
(* directory that may be unreadable, and names in both letter cases        *)
(***************************************************************************)
SearchPatterns ==
    {<<"*", ".", "J", "S">>, <<"s">>, <<"d", "/", "*">>,
     <<"/", "r", "/", "d", "/", "*">>, <<"*", "d", "*", "s">>,
     <<"j", "*">>, <<"*", "*", "/", "s">>, <<"*">>}

SearchExcludes == {<<>>, <<(<<"d">>)>>, <<(<<"d", "*">>)>>, <<(<<"*", ".", "j", "s">>)>>}

SearchRoots == {<<Nr>>, <<Nr, Nd>>, <<Nr, Nn>>, <<No>>}

SearchLinkTargets == {<<No>>, <<Nr, Nd>>, <<No, Nn>>, <<Nr>>, <<Nr, Nd, Nl>>}

SearchTrees ==
    {Put(Put(Put(Put(BaseTree, LinkSite, LinkNode(t)), <<Nr, Nb>>, b),
             <<Nr, Nb, Ns>>, FileNode(<<"a">>)),
         <<Nr, Nd, Nl>>, LinkNode(LinkSite)) :
        t \in SearchLinkTargets, b \in {DirNode, UnreadableDir}}

InitSearch ==
    /\ fs \in SearchTrees
    /\ req = [i \in Clients |-> IF i = 1 THEN Idle(1) ELSE Off]
    /\ preview = <<>>
    /\ interposed = 0

NextSearch ==
    \E i \in Clients :
        \/ Ready(i) /\ \E p \in SearchRoots, pattern \in SearchPatterns,
                          ex \in SearchExcludes :
               CallSearchFiles(i, p, pattern, ex)
        \/ Authorize(i)
        \/ AuthorizeParent(i)
        \/ SearchStart(i)
        \/ \E full \in DOMAIN fs : SearchEntry(i, full)
        \/ SearchReturn(i)

SpecSearch == InitSearch /\ [][NextSearch]_vars

(***************************************************************************)
(* The validation specification: the JavaScript validator on every short   *)
(* text of brackets, quotes, backslashes and line breaks                   *)
(***************************************************************************)
MaxJsLen == 4

JsAlphabet == {"(", ")", "]", Backtick, "'", "\\", "\n"}

JsContents == SeqsUpTo(JsAlphabet, MaxJsLen)

InitValidate ==
    /\ \E c \in JsContents : fs = Put(BaseTree, Target, FileNode(c))
    /\ req = [i \in Clients |-> IF i = 1 THEN Idle(1) ELSE Off]
    /\ preview = <<>>
    /\ interposed = 0

NextValidate ==
    \E i \in Clients :
        \/ CallEditFile(i, Target, <<>>, TRUE, FALSE)
        \/ Authorize(i)
        \/ ReadAndEdit(i)

SpecValidate == InitValidate /\ [][NextValidate]_vars

(***************************************************************************)
(* The directory specification: create_directory on existing and missing   *)
(* paths, one or two levels deep                                           *)
(***************************************************************************)
CreatePaths ==
    {<<Nr, Nn>>, <<Nr, Nn, Nn>>, <<Nr, Nd>>, <<Nr, Nd, Nn>>, Target, <<No, Nn>>}

InitCreate ==
    /\ fs = BaseTree
    /\ req = [i \in Clients |-> Idle(1)]
    /\ preview = <<>>
    /\ interposed = 0

NextCreate ==
    \E i \in Clients :
        \/ Ready(i) /\ \E p \in CreatePaths : CallCreateDirectory(i, p)
        \/ Authorize(i)
        \/ AuthorizeParent(i)
        \/ CreateDirectory(i)

SpecCreate == InitCreate /\ [][NextCreate]_vars

(***************************************************************************)
(* The command specification: run_command with working directories given   *)
(* in every form, timeouts of every sign, and children that exit or hang   *)
(***************************************************************************)
WorkingDirectories ==
    {Absent,
     Given("absolute", <<Nr, Nd>>), Given("absolute", <<Nr, Nn>>),
     Given("absolute", <<Nr, Nf>>), Given("absolute", <<No>>),
     Given("absolute", <<Nr, Nl>>),
     Given("home", <<>>), Given("home", <<Nd>>),
     Given("relative", <<Nb>>)}

Timeouts == {0 - 1, 0, 1, 2}

\* trees with and without a directory named ~ where the server was started,
\* and with a symlink under the root that leads out of it
CommandTrees ==
    {BaseTree,
     Put(BaseTree, LinkSite, LinkNode(<<No>>)),
     Put(Put(BaseTree, <<No, Ntilde>>, DirNode), LinkSite, LinkNode(<<Nr, Nd>>))}

InitCmd ==
    /\ fs \in CommandTrees
    /\ req = [i \in Clients |-> IF i = 1 THEN Idle(MaxCalls) ELSE Off]
    /\ preview = <<>>
    /\ interposed = 0

NextCmd ==
    \E i \in Clients :
        \/ Ready(i) /\ \E w \in WorkingDirectories, t \in Timeouts,
                           e \in BOOLEAN, a \in {0, MaxTicks} :
                         CallRunCommand(i, w, t, e, a)
        \/ Authorize(i)
        \/ AuthorizeParent(i)
        \/ Spawn(i)
        \/ Tick(i)
        \/ ProcessExit(i)
        \/ TimeoutKill(i)
        \/ Respond(i)

SpecCmd == InitCmd /\ [][NextCmd]_vars

\* the timer of exec and the child process run on their own
SpecCmdLive ==
    /\ SpecCmd
    /\ \A i \in Clients :
          WF_vars(Tick(i) \/ ProcessExit(i) \/ TimeoutKill(i))

(***************************************************************************)
(* The dispatcher specification: calls that fail in every way the tools    *)
(* can fail, and calls that succeed, one after the other                   *)
(***************************************************************************)
Unbalance == [oldText |-> <<"a">>, newText |-> <<"(">>]

InitDispatch ==
    /\ fs = BaseTree
    /\ req = [i \in Clients |-> IF i = 1 THEN Idle(MaxCalls) ELSE Off]
    /\ preview = <<>>
    /\ interposed = 0

NextDispatch ==
    \E i \in Clients :
        \/ Ready(i) /\ \E p \in {Target, <<No, Ns>>} : CallReadFile(i, p)
        \/ Ready(i) /\ \E p \in {<<Nr, Nn>>, <<Nr, Nn, Nn>>} :
                         CallWriteFile(i, p, NewContent)
        \/ Ready(i) /\ \E p \in {<<Nr, Nn>>, <<Nr, Nd>>, <<Nr, Nddx>>} :
                         CallDeleteFile(i, p, FALSE)
        \/ Ready(i) /\ \E e \in {E1, E2, Unbalance} :
                         CallEditFile(i, Target, <<e>>, TRUE, FALSE)
        \/ Ready(i) /\ \E w \in {Absent, Given("absolute", <<Nr, Nn>>)},
                           t \in {0 - 1, 1}, e \in BOOLEAN :
                         CallRunCommand(i, w, t, e, 0)
        \/ Ready(i) /\ \E tool \in ToolNames : CallInvalid(i, tool)
        \/ CallUnknown(i)
        \/ Authorize(i)
        \/ AuthorizeParent(i)
        \/ ReadFile(i)
        \/ WriteFile(i)
        \/ OpenForWrite(i)
        \/ FlushWrite(i)
        \/ StatForDelete(i)
        \/ Remove(i)
        \/ ReadAndEdit(i)
        \/ Spawn(i)
        \/ Tick(i)
        \/ ProcessExit(i)
        \/ TimeoutKill(i)
        \/ Respond(i)

SpecDispatch == InitDispatch /\ [][NextDispatch]_vars

(***************************************************************************)
(* Startup: the top level of the module up to main().  The server process  *)
(* is the entry Server of req; the client slots are off until the          *)
(* transport is connected.                                                 *)
(***************************************************************************)
MaxArgs == 2

Server == 0

\* process.argv.slice(2) before the first statement has run
Launched(args) ==
    [pc |-> "args", args |-> args, allowed |-> <<>>, checked |-> {},
     code |-> 0]

\* process.exit(1)
Exit(p) == [p EXCEPT !.pc = "exited", !.code = 1]

\* the path fs.realpath and fs.stat are given for an argument
ArgumentPath(w) == AbsoluteOf(expandHome(w))

\* one element of allowedDirectories: the real path, or the normalized
\* absolute path where realpath fails
AllowedFor(f, w) ==
    IF realpath(f, ArgumentPath(w)).ok
    THEN normalizePath(realpath(f, ArgumentPath(w)).path)
    ELSE normalizePath(ArgumentPath(w))

\* if (args.length === 0) process.exit(1); then allowedDirectories is built
ParseArgs ==
    /\ req[Server].pc = "args"
    /\ req' = [req EXCEPT ![Server] =
                 IF Len(req[Server].args) = 0 THEN Exit(req[Server])
                 ELSE [req[Server] EXCEPT
                         !.pc = "stat",
                         !.allowed = [k \in 1..Len(req[Server].args) |->
                                        AllowedFor(fs, req[Server].args[k])]]]
    /\ UNCHANGED <<fs, preview, interposed>>

\* the callback of one argument accepts what fs.stat reports as a file too
StatMissingOnly(p, k, real, f) ==
    IF ~real.ok THEN Exit(p)
    ELSE [p EXCEPT !.checked = p.checked \cup {k},
                   !.pc = IF p.checked \cup {k} = 1..Len(p.args)
                          THEN "main" ELSE "stat"]

\* the callback of one argument: fs.stat, stats.isDirectory(), and
\* process.exit(1) on either failure; main() runs after the last one
StatOutcome(p, k, real, f) ==
    IF ~real.ok THEN Exit(p)
    ELSE IF NodeAt(f, real.path).type # "dir" THEN Exit(p)
    ELSE [p EXCEPT !.checked = p.checked \cup {k},
                   !.pc = IF p.checked \cup {k} = 1..Len(p.args)
                          THEN "main" ELSE "stat"]

\* the stat of the arguments settle in any order
StatArgument(k) ==
    /\ req[Server].pc = "stat"
    /\ k \in 1..Len(req[Server].args)
    /\ k \notin req[Server].checked
    /\ req' = [req EXCEPT ![Server] =
                 StatOutcome(req[Server], k,
                             realpath(fs, ArgumentPath(req[Server].args[k])),
                             fs)]
    /\ UNCHANGED <<fs, preview, interposed>>

\* main(): server.connect(transport); requests arrive from here on
Connect ==
    /\ req[Server].pc = "main"
    /\ req' = [i \in DOMAIN req |->
                 IF i = Server THEN [req[Server] EXCEPT !.pc = "serving"]
                 ELSE Idle(1)]
    /\ UNCHANGED <<fs, preview, interposed>>

(***************************************************************************)
(* The startup specification: every list of up to MaxArgs arguments, then  *)
(* requests once the transport is connected                                *)
(***************************************************************************)
Arguments ==
    {Given("absolute", <<Nr>>), Given("absolute", <<Nr, Nd>>),
     Given("absolute", <<Nr, Nf>>), Given("absolute", <<Nr, Nn>>),
     Given("absolute", <<Nr, Nl>>), Given("home", <<>>),
     Given("relative", <<Nb>>)}

InitStartup ==
    /\ fs = Put(BaseTree, LinkSite, LinkNode(<<Nr, Nd>>))
    /\ \E args \in SeqsUpTo(Arguments, MaxArgs) :
          req = [i \in Clients \cup {Server} |->
                   IF i = Server THEN Launched(args) ELSE Off]
    /\ preview = <<>>
    /\ interposed = 0

NextStartup ==
    \/ ParseArgs
    \/ \E k \in 1..MaxArgs : StatArgument(k)
    \/ Connect
    \/ \E i \in Clients :
          \/ Ready(i) /\ \E tool \in ToolNames : CallInvalid(i, tool)
          \/ CallUnknown(i)

SpecStartup == InitStartup /\ [][NextStartup]_vars

(***************************************************************************)
(* The read specification: read_file with head and tail on files of some   *)
(* lines, and read_multiple_files on batches of paths                      *)
(***************************************************************************)
MaxLines == 4

MaxBatch == 2

LineNames == <<"1", "2", "3", "4", "5", "6">>

\* a file of n lines, the k-th holding the k-th name
NumberedLines(n) == JoinLines([k \in 1..n |-> <<LineNames[k]>>])

BatchPaths ==
    {Target, <<No, Ns>>, <<Nr, Nn>>, <<Nr, Nd>>, <<Nr, Nl, Ns>>, <<Nr, Nl, Nn>>}

Batches == SeqsUpTo(BatchPaths, MaxBatch)

InitRead ==
    /\ \E n \in 1..MaxLines :
          fs = Put(Put(BaseTree, LinkSite, LinkNode(<<No>>)),
                   Target, FileNode(NumberedLines(n)))
    /\ req = [i \in Clients |-> IF i = 1 THEN Idle(1) ELSE Off]
    /\ preview = <<>>
    /\ interposed = 0

NextRead ==
    \E i \in Clients :
        \/ Ready(i) /\ \E h \in 0..(MaxLines + 1), t \in 0..(MaxLines + 1) :
               CallReadFileLines(i, Target, h, t)
        \/ Ready(i) /\ \E paths \in Batches : CallReadMany(i, paths)
        \/ Authorize(i)
        \/ ReadFile(i)
        \/ \E k \in 1..MaxBatch : ReadManyStep(i, k)
        \/ ReadManyReturn(i)

SpecRead == InitRead /\ [][NextRead]_vars

(***************************************************************************)
(* Properties of the path guard                                            *)
(***************************************************************************)
\* component-wise containment: p is a root or a descendant of one
Inside(p) == \E d \in SeqToSet(allowedDirectories) : IsPrefix(d, p)

StrictlyInside(p) ==
    \E d \in SeqToSet(allowedDirectories) : IsPrefix(d, p) /\ p # d

Mutating == {"write", "remove", "rename"}

\* the request has not changed the filesystem yet
Untouched(r) == \A t \in r.touched : t.op \notin Mutating

\* the request failed inside validatePath
FailedValidation(r) == r.pc = "done" /\ Validating(r)

\* C1: a requested path whose normalized form is neither an AllowedRoot nor
\* a component-wise descendant of one is never validated; validatePath
\* fails on it with AccessDenied and the request touches nothing.
C1_OutsideDenied ==
    \A i \in Clients :
        LET r == req[i] IN
        /\ \A j \in 1..Len(r.valid) : Inside(PathResolve(r.paths[j]))
        /\ (Validating(r) /\ ~Inside(PathResolve(Current(r)))) =>
              /\ r.pc \in {"validate", "done"}
              /\ (r.pc = "done" => r.result = "AccessDenied")
              /\ r.touched = {}

C1_Witness ==
    \E i \in Clients :
        /\ FailedValidation(req[i])
        /\ req[i].result = "AccessDenied"
        /\ Current(req[i]) = <<Nr, DotDot, No>>

\* p, normalized, lies under a root and runs through (or is) a symlink that
\* lies inside a root and resolves to an existing location outside all roots
ThroughEscapingLink(f, p) ==
    /\ Inside(p)
    /\ \E n \in 1..Len(p) :
         LET q == SubSeq(p, 1, n) IN
         /\ Exists(f, q)
         /\ NodeAt(f, q).type = "link"
         /\ Inside(q)
         /\ realpath(f, q).ok
         /\ ~Inside(realpath(f, q).path)

\* C2 as stated: validatePath never succeeds on a symlink inside a root that
\* resolves outside, nor on any path that passes through such a symlink.
C2_Original ==
    \A i \in Clients :
        LET r == req[i] IN
        Untouched(r) =>
            \A j \in 1..Len(r.valid) :
                ~ThroughEscapingLink(fs, PathResolve(r.paths[j]))

\* C2 amended: validatePath fails on a symlink inside a root that resolves
\* outside every root, and on every path through it, unless that path itself,
\* or the parent directory of a target that does not exist, resolves to an
\* existing location under a root (it re-enters through a further symlink);
\* a failed request touches nothing.
C2_EscapingLinkDenied ==
    \A i \in Clients :
        LET r == req[i] IN
        /\ Untouched(r) =>
             \A j \in 1..Len(r.valid) :
                 LET p == PathResolve(r.paths[j])
                     real == realpath(fs, p)
                     par == realpath(fs, dirname(p))
                 IN  ThroughEscapingLink(fs, p) =>
                         \/ /\ r.via[j] = "real"
                            /\ real.ok
                            /\ Inside(real.path)
                            /\ r.valid[j] = real.path
                         \/ /\ r.via[j] = "parent"
                            /\ ~real.ok
                            /\ par.ok
                            /\ Inside(par.path)
                            /\ r.valid[j] = p
        /\ FailedValidation(r) => r.touched = {}

C2_Witness ==
    \E i \in Clients :
        /\ FailedValidation(req[i])
        /\ Current(req[i]) = <<Nr, Nl, Ns>>
        /\ ThroughEscapingLink(fs, PathResolve(Current(req[i])))
        /\ req[i].result = "AccessDenied"

\* C3: a request that was validated through the new-file branch (only the
\* parent was resolved) creates, modifies or removes nothing outside the
\* roots.
C3_NewFileInsideRoots ==
    \A i \in Clients :
        LET r == req[i] IN
        (\E j \in 1..Len(r.via) : r.via[j] = "parent") =>
            \A t \in r.touched : t.op \in Mutating => Inside(t.at)

\* C5: validatePath succeeds on every path strictly inside a root whose
\* target or parent exists (and resolves under a root), whatever the names
\* of its components, and returns a path that resolves under a root.
C5_InsideAccepted ==
    \A i \in Clients :
        LET r == req[i] IN
        /\ FailedValidation(r) =>
             LET p == PathResolve(Current(r))
                 real == realpath(fs, p)
                 par == realpath(fs, dirname(p))
             IN  ~ /\ StrictlyInside(p)
                   /\ \/ real.ok /\ Inside(real.path)
                      \/ real.code = "ENOENT" /\ par.ok /\ Inside(par.path)
        /\ Untouched(r) =>
             \A j \in 1..Len(r.valid) :
                 realpath(fs, r.valid[j]).ok =>
                     Inside(realpath(fs, r.valid[j]).path)

\* C6: for a target that does not exist, validatePath fails with
\* AccessDenied when the resolved parent lies outside every root, and with
\* ParentMissing only when the parent does not exist.
C6_ParentErrorsDistinct ==
    \A i \in Clients :
        LET r == req[i] IN
        FailedValidation(r) =>
            LET p == PathResolve(Current(r))
                par == realpath(fs, dirname(p))
            IN  (Inside(p) /\ realpath(fs, p).code = "ENOENT") =>
                   /\ (par.ok /\ ~Inside(par.path)) => r.result = "AccessDenied"
                   /\ r.result = "ParentMissing" => ~par.ok


(***************************************************************************)
(* Properties of the edit engine                                           *)
(***************************************************************************)
\* the request has read its file: original holds the bytes read
HasRead(r) == \E t \in r.touched : t.op = "read"

Persisting == {"open", "flush", "rename", "cleanup"}

\* what the edit loop makes of the bytes the request read
Applied(r) == ApplyEdits(normalizeLineEndings(r.original), r.edits)

Accepted(r) ==
    validateFileContent(Applied(r).content, getFileType(r.valid[1])).valid

NoTempFile(r) == \A hex \in Hex : ~Exists(fs, TempPath(r.valid[1], hex))

\* the file the request named is as the request read it, and nothing else
\* was written
DiskUnchanged(r) ==
    /\ Untouched(r)
    /\ realpath(fs, r.valid[1]).ok
    /\ NodeAt(fs, realpath(fs, r.valid[1]).path) = FileNode(r.original)
    /\ NoTempFile(r)

\* C7: an edit_file request writes only content the validator accepted,
\* unless skipValidation is set; when the edited content is rejected the
\* request ends with ValidationFailed, the file unchanged and no temporary
\* file created.
C7_ValidatedBeforeWrite ==
    \A i \in Clients :
        LET r == req[i] IN
        r.tool = "edit_file" =>
            /\ (r.pc \in Persisting \/ ~Untouched(r)) =>
                   (r.skipValidation \/ Accepted(r))
            /\ (r.pc = "done" /\ HasRead(r) /\ ~r.skipValidation
                /\ Applied(r).found /\ ~Accepted(r)) =>
                   (r.result = "ValidationFailed" /\ DiskUnchanged(r))

C7_Witness ==
    \E i \in Clients :
        /\ req[i].tool = "edit_file"
        /\ req[i].pc = "done"
        /\ ~req[i].dryRun
        /\ req[i].result = "ValidationFailed"
        /\ Applied(req[i]).content # normalizeLineEndings(req[i].original)

\* C8: when an edit of the sequence is located neither exactly nor by the
\* line match, the request fails with EditNotFound and the file is what it
\* was, also when earlier edits of the sequence matched.
C8_EditNotFoundKeepsFile ==
    \A i \in Clients :
        LET r == req[i] IN
        (r.tool = "edit_file" /\ HasRead(r) /\ ~Applied(r).found) =>
            /\ r.pc = "done"
            /\ r.result = "EditNotFound"
            /\ DiskUnchanged(r)

C8_Witness ==
    \E i \in Clients :
        LET r == req[i] IN
        /\ r.tool = "edit_file"
        /\ r.pc = "done"
        /\ ~r.dryRun
        /\ r.result = "EditNotFound"
        /\ Len(r.edits) = 2
        /\ ApplyEdit(normalizeLineEndings(r.original), r.edits[1]).found
        /\ ApplyEdit(normalizeLineEndings(r.original), r.edits[1]).content
              # normalizeLineEndings(r.original)

\* the last dry run was made with the arguments of request r
Previewed(r) ==
    /\ preview # <<>>
    /\ preview[1].path = r.valid[1]
    /\ preview[1].edits = r.edits
    /\ preview[1].skipValidation = r.skipValidation

\* C9: a dry run writes nothing (the file is as read, no temporary file),
\* and a run with dryRun=false on the same path with the same edits, with
\* no write since the dry run, computes the same diff.
C9_DryRunThenApply ==
    \A i \in Clients :
        LET r == req[i] IN
        r.tool = "edit_file" =>
            /\ r.dryRun =>
                 /\ r.pc \notin Persisting
                 /\ Untouched(r)
                 /\ (r.pc = "done" /\ HasRead(r)) => DiskUnchanged(r)
            /\ (~r.dryRun /\ Len(r.valid) = 1 /\ r.pc # "op" /\ Previewed(r)) =>
                 /\ r.pc = "open"
                 /\ r.diff = preview[1].diff

C9_Witness ==
    \E i \in Clients :
        LET r == req[i] IN
        /\ r.tool = "edit_file"
        /\ ~r.dryRun
        /\ r.pc = "open"
        /\ Previewed(r)
        /\ r.diff # <<>>
        /\ Len(r.edits) = 2


\* C10: with two edit_file requests in flight on one file, the file's
\* content changes only when a request renames its temporary file over it,
\* and then becomes exactly the content that request computed from the
\* bytes it read; the request that renames last decides the final content.
C10_AtomicReplace ==
    [][ /\ Target \in DOMAIN fs'
        /\ fs'[Target] # NodeAt(fs, Target) =>
              \E i \in Clients :
                  /\ req[i].pc = "rename"
                  /\ req'[i].pc = "done"
        /\ \A i \in Clients :
              (req[i].pc = "rename" /\ req'[i].pc = "done") =>
                  /\ Applied(req[i]).found
                  /\ req[i].modified = Applied(req[i]).content
                  /\ fs'[Target] = FileNode(req[i].modified) ]_vars

\* both requests read the same bytes, both renamed, and the file holds the
\* second one's content only
C10_Witness ==
    /\ \A i \in Clients :
          /\ req[i].pc = "done"
          /\ req[i].result = "ok"
          /\ ~req[i].dryRun
    /\ req[1].original = req[2].original
    /\ req[1].modified # req[2].modified
    /\ req[1].modified # req[1].original
    /\ fs[Target] = FileNode(req[2].modified)

(***************************************************************************)
(* Property of the handlers under interference                             *)
(***************************************************************************)
\* C4: when another process creates or retargets a symlink under a root
\* while a write_file, edit_file, delete_file or move_file request runs,
\* the request still writes, replaces and removes nothing outside the
\* roots.
C4_NoEscapeUnderRace ==
    \A i \in Clients :
        LET r == req[i] IN
        r.tool \in {"write_file", "edit_file", "delete_file", "move_file"} =>
            \A t \in r.touched : t.op \in Mutating => Inside(t.at)

(***************************************************************************)
(* Properties of writes that fail or are observed midway                   *)
(***************************************************************************)
\* a complete content: one the file started with, or one a write_file
\* request carries
Complete(data) == data \in InitContents \cup WriteContents

\* C11: while a write_file request on a file runs, and after it failed, the
\* file holds its complete old content or the complete new content, and a
\* read_file request that succeeds returns one of the two.
C11_WriteFileAtomic ==
    req[Writer].tool = "write_file" =>
        /\ Exists(fs, Target)
        /\ Complete(NodeAt(fs, Target).data)
        /\ (req[Reader].pc = "done" /\ req[Reader].result = "ok") =>
               Complete(req[Reader].original)

\* the edit_file request failed after it set out to write its temporary file
FailedPersisting(r) ==
    /\ r.tool = "edit_file"
    /\ r.pc = "done"
    /\ r.wpath # <<>>
    /\ r.result # "ok"

\* C12: an edit_file request that fails while it writes its temporary file
\* or renames it ends with that error; the target holds the content the
\* request read, and the temporary file is gone unless its unlink was
\* rejected.
C12_FailedPersistKeepsTarget ==
    \A i \in Clients :
        LET r == req[i] IN
        /\ (r.pc = "cleanup") => (r.tool = "edit_file" /\ r.result = "Other")
        /\ FailedPersisting(r) =>
              /\ r.result = "Other"
              /\ NodeAt(fs, Target) = FileNode(r.original)
              /\ (\A t \in r.touched : t.op # "unlinkFailed") =>
                     ~Exists(fs, r.wpath)

\* the rename was rejected, the temporary file existed and was unlinked
C12_Witness ==
    \E i \in Clients :
        /\ FailedPersisting(req[i])
        /\ \E t \in req[i].touched : t.op = "remove" /\ t.at = req[i].wpath
        /\ req[i].modified # normalizeLineEndings(req[i].original)
        /\ ~Exists(fs, req[i].wpath)

(***************************************************************************)
(* Properties of the two matching strategies                               *)
(***************************************************************************)
\* the request has read its file and computed its single edit
OneEdit(r) == r.tool = "edit_file" /\ HasRead(r) /\ Len(r.edits) = 1

\* C13: when the search text occurs verbatim, the result is the content
\* with the first occurrence replaced by the replacement text, character
\* for character, and everything before and after it unchanged.
C13_ExactReplacesVerbatim ==
    \A i \in Clients :
        LET r == req[i] IN
        OneEdit(r) =>
            LET content == normalizeLineEndings(r.original)
                old == normalizeLineEndings(r.edits[1].oldText)
                new == normalizeLineEndings(r.edits[1].newText)
                k == IndexOf(content, old)
            IN  k # -1 =>
                   r.modified = SubSeq(content, 1, k) \o new
                                \o SubSeq(content, k + Len(old) + 1, Len(content))

\* the windows of content lines that equal the search lines after trimming
Windows(lines, oldLines) ==
    {w \in 0..(Len(lines) - Len(oldLines)) :
        \A j \in 1..Len(oldLines) : Trim(lines[w + j]) = Trim(oldLines[j])}

\* the last n elements of a sequence
LastN(q, n) == SubSeq(q, Len(q) - n + 1, Len(q))

\* C14: when the search text does not occur verbatim but some window of
\* lines matches after trimming, the lowest such window is replaced: the
\* lines before and after it are unchanged, and the first replacement line
\* is the first new line, its own indentation swapped for that of the
\* window's first line.
C14_FuzzyReplacesFirstWindow ==
    \A i \in Clients :
        LET r == req[i] IN
        OneEdit(r) =>
            LET content == normalizeLineEndings(r.original)
                old == normalizeLineEndings(r.edits[1].oldText)
                new == normalizeLineEndings(r.edits[1].newText)
                lines == SplitLines(content)
                oldLines == SplitLines(old)
                hits == Windows(lines, oldLines)
            IN  (IndexOf(content, old) = -1 /\ hits # {}) =>
                   LET w == Min(hits)
                       after == Len(lines) - w - Len(oldLines)
                       res == SplitLines(r.modified)
                   IN  /\ r.pc = "done" /\ r.result = "ok"
                       /\ Len(res) = w + Len(SplitLines(new)) + after
                       /\ SubSeq(res, 1, w) = SubSeq(lines, 1, w)
                       /\ LastN(res, after) = LastN(lines, after)
                       /\ res[w + 1] = LeadingSpace(lines[w + 1])
                                        \o TrimStart(SplitLines(new)[1])

\* the second of three lines matches, indented, and so does the third
C14_Witness ==
    \E i \in Clients :
        LET r == req[i] IN
        /\ OneEdit(r)
        /\ r.result = "ok"
        /\ r.edits[1].oldText = <<"a", " ">>
        /\ r.edits[1].newText = <<" ", "c", "\n", " ", " ", " ", "d">>
        /\ Windows(SplitLines(r.original), <<r.edits[1].oldText>>) = {1, 2}
        /\ SplitLines(r.modified)[2] = <<" ", " ", "c">>

(***************************************************************************)
(* Properties of the read handlers                                         *)
(***************************************************************************)
\* C15: read_file with head h and tail t on a file of n lines returns the
\* first h lines, the ellipsis line and the last t lines when h + t < n,
\* and every line of the file once, without the ellipsis line, otherwise.
C15_HeadAndTail ==
    \A i \in Clients :
        LET r == req[i]
            lines == SplitLines(r.original)
            n == Len(lines)
        IN  (r.tool = "read_file" /\ r.pc = "done" /\ r.result = "ok"
             /\ r.head > 0 /\ r.tail > 0) =>
                SplitLines(r.text) =
                    IF r.head + r.tail < n
                    THEN SubSeq(lines, 1, r.head) \o <<Ellipsis>>
                         \o SubSeq(lines, n - r.tail + 1, n)
                    ELSE lines

\* what a single path of a batch is due, by itself, in filesystem f
SectionDue(f, requested) ==
    LET v == validatePath(f, requested)
        w == IF v.state = "parent" THEN validateParent(f, v.path) ELSE v
    IN  IF w.state # "pass" THEN SectionError(w.error)
        ELSE SectionRead(f, realpath(f, w.path))

\* C16: read_multiple_files never fails as a whole; when it returns it
\* holds one section per requested path, in request order, and each is the
\* content or the error that path gets on its own.
C16_OneSectionPerPath ==
    \A i \in Clients :
        LET r == req[i] IN
        r.tool = "read_multiple_files" =>
            /\ Len(r.sections) = Len(r.paths)
            /\ r.pc \in {"many", "done"}
            /\ r.pc = "done" =>
                  /\ r.result = "ok"
                  /\ \A k \in 1..Len(r.paths) :
                        r.sections[k] = SectionDue(fs, r.paths[k])

\* a batch whose first path is denied and whose second is read
C16_Witness ==
    \E i \in Clients :
        LET r == req[i] IN
        /\ r.tool = "read_multiple_files"
        /\ r.pc = "done"
        /\ Len(r.paths) = 2
        /\ r.sections[1].error = "AccessDenied"
        /\ r.sections[2].error = "none"
        /\ r.sections[2].text = NodeAt(fs, Target).data

(***************************************************************************)
(* Properties of delete_file and move_file                                 *)
(***************************************************************************)
\* the request is about to remove the directory at q, which has entries
DeletingNonEmptyDir(r, q) ==
    /\ r.tool = "delete_file"
    /\ r.pc = "remove"
    /\ r.statDir
    /\ q = r.valid[1]
    /\ Exists(fs, q)
    /\ fs[q].type = "dir"
    /\ Children(fs, q) # {}

\* C17: delete_file on a non-empty directory without recursive fails with
\* NotEmpty and changes nothing on disk; with recursive it succeeds and
\* neither the directory nor anything below it is left.
C17_DeleteNonEmptyDir ==
    [][\A i \in Clients : \A q \in DOMAIN fs :
         (DeletingNonEmptyDir(req[i], q) /\ req'[i].pc = "done") =>
            IF req[i].recursive
            THEN /\ req'[i].result = "ok"
                 /\ \A below \in DOMAIN fs :
                       IsPrefix(q, below) => below \notin DOMAIN fs'
                 /\ \A other \in DOMAIN fs :
                       ~IsPrefix(q, other) =>
                           other \in DOMAIN fs' /\ fs'[other] = fs[other]
            ELSE /\ req'[i].result = "NotEmpty"
                 /\ fs' = fs]_vars

\* a recursive delete_file has removed a directory together with an entry
\* below it
C17_Witness ==
    \E i \in Clients :
        LET r == req[i] IN
        /\ r.tool = "delete_file"
        /\ r.pc = "done"
        /\ r.recursive
        /\ r.result = "ok"
        /\ r.valid = <<(<<Nr, Nd>>)>>
        /\ <<Nr, Nd>> \notin DOMAIN fs
        /\ <<Nr, Nd, Ns>> \notin DOMAIN fs

\* C18: move_file fails whenever the destination exists, and then leaves
\* the disk as it was.
C18_MoveOntoExistingFails ==
    [][\A i \in Clients :
         (/\ req[i].tool = "move_file"
          /\ req[i].pc = "op"
          /\ Exists(fs, req[i].valid[2])
          /\ req'[i].pc = "done") =>
            /\ req'[i].result # "ok"
            /\ fs' = fs]_vars

(***************************************************************************)
(* Properties of search_files                                              *)
(***************************************************************************)
Searched(r) == r.tool = "search_files" /\ r.pc = "done" /\ r.valid # <<>>

\* the entries strictly between the search root and the entry
Between(rootPath, full) ==
    {SubSeq(full, 1, n) : n \in (Len(rootPath) + 1)..(Len(full) - 1)}

Authorized(f, full) == validatePathWhole(f, full).state = "pass"

Listable(f, d) == f[d].type = "dir" /\ f[d] # UnreadableDir

\* below the root, and every directory on the way down from the root can
\* be listed and passes validatePath
ThroughReadableAuthorized(f, rootPath, full) ==
    /\ Len(full) > Len(rootPath)
    /\ IsPrefix(rootPath, full)
    /\ Exists(f, rootPath) /\ Listable(f, rootPath)
    /\ \A d \in Between(rootPath, full) : Listable(f, d) /\ Authorized(f, d)

\* the same, and no directory on the way down is excluded
ThroughWalkedDirs(f, r, full) ==
    /\ ThroughReadableAuthorized(f, r.valid[1], full)
    /\ \A d \in Between(r.valid[1], full) :
          ~shouldExclude(PathRelative(r.valid[1], d), r.excludePatterns)

\* the entry is due in the results: authorized, not excluded, matching
Due(f, r, full) ==
    /\ Authorized(f, full)
    /\ ~shouldExclude(PathRelative(r.valid[1], full), r.excludePatterns)
    /\ Matched(r.valid[1], r.pattern, full)

\* C19 as stated: a search returns a list holding every authorized,
\* non-excluded, matching entry reachable through readable authorized
\* directories, and no entry that failed authorization.
C19_Original ==
    \A i \in Clients :
        Searched(req[i]) =>
            /\ req[i].result = "ok"
            /\ \A full \in DOMAIN fs :
                  (ThroughReadableAuthorized(fs, req[i].valid[1], full)
                   /\ Due(fs, req[i], full)) => full \in SeqToSet(req[i].results)
            /\ \A full \in SeqToSet(req[i].results) : Authorized(fs, full)

\* C19: a search that got past the validation of its root never fails; its
\* results are exactly the authorized, non-excluded, matching entries that
\* lie below readable, authorized and non-excluded directories, each once.
C19_SearchSkipsAndReturns ==
    \A i \in Clients :
        Searched(req[i]) =>
            /\ req[i].result = "ok"
            /\ SeqToSet(req[i].results) =
                  {full \in DOMAIN fs :
                      ThroughWalkedDirs(fs, req[i], full) /\ Due(fs, req[i], full)}
            /\ Len(req[i].results) = Cardinality(SeqToSet(req[i].results))

\* a search that skipped a matching entry failing authorization and a
\* directory it could not read, and still returned a match
C19_Witness ==
    \E i \in Clients :
        /\ Searched(req[i])
        /\ req[i].valid[1] = <<Nr>>
        /\ ~Authorized(fs, LinkSite)
        /\ Matched(<<Nr>>, req[i].pattern, LinkSite)
        /\ LinkSite \notin SeqToSet(req[i].results)
        /\ fs[<<Nr, Nb>>] = UnreadableDir
        /\ <<Nr, Nd, Ns>> \in SeqToSet(req[i].results)
        /\ <<Nr, Nb, Ns>> \notin SeqToSet(req[i].results)

\* C20: for a pattern holding "*", an entry the walk tests matches whenever
\* every non-empty fragment of the pattern occurs in its name or relative
\* path, whatever the number of fragments.
C20_FragmentsMatch ==
    \A i \in Clients : \A full \in req[i].visited :
        PartialMatchAnyCount(req[i].pattern, full[Len(full)],
                             PathRelative(req[i].valid[1], full))
            => full \in SeqToSet(req[i].results)

(***************************************************************************)
(* Frame of a persisted edit                                               *)
(***************************************************************************)
\* the request wrote the file and returned
Persisted(r) ==
    /\ r.tool = "edit_file"
    /\ r.pc = "done"
    /\ r.result = "ok"
    /\ ~r.dryRun

\* written keeps what stands before and after the first occurrence of old
\* in original
KeepsAround(original, old, written) ==
    LET at == IndexOf(original, old)
        before == SubSeq(original, 1, at)
        after == SubSeq(original, at + Len(old) + 1, Len(original))
    IN  /\ Len(written) >= Len(before) + Len(after)
        /\ StartsWith(written, before)
        /\ EndsWith(written, after)

\* C30: a persisted edit_file changes only what its edits replaced: with no
\* edits the file is as it was read, and with one edit whose oldText occurs
\* in the file, everything before and after that occurrence is kept,
\* line endings included.
C30_OnlyEditedRegionsChange ==
    \A i \in Clients :
        LET r == req[i] IN
        Persisted(r) =>
            /\ r.edits = <<>> => fs[r.valid[1]].data = r.original
            /\ (Len(r.edits) = 1 /\ Includes(r.original, r.edits[1].oldText)) =>
                  KeepsAround(r.original, r.edits[1].oldText, fs[r.valid[1]].data)

(***************************************************************************)
(* Order of the edits of one request                                       *)
(***************************************************************************)
\* the content after the first k edits, each matched against the content
\* the edits before it produced; the first edit not found ends the run
RECURSIVE AfterEdits(_, _, _)
AfterEdits(content, edits, k) ==
    IF k = 0 THEN [found |-> TRUE, content |-> content]
    ELSE LET before == AfterEdits(content, edits, k - 1) IN
         IF ~before.found THEN before
         ELSE ApplyEdit(before.content, edits[k])

\* C26: the edits of a request are applied left to right, each on the
\* output of the one before; an edit that cannot be found then fails the
\* request, and what is diffed and written is the output of the last edit.
C26_EditsLeftToRight ==
    \A i \in Clients :
        LET r == req[i]
            content == normalizeLineEndings(r.original)
            out == AfterEdits(content, r.edits, Len(r.edits))
        IN  (r.tool = "edit_file" /\ HasRead(r)) =>
              /\ r.modified = out.content
              /\ ~out.found => r.pc = "done" /\ r.result = "EditNotFound"
              /\ (r.pc = "done" /\ r.result = "ok") =>
                    out.found /\ r.diff = createUnifiedDiff(content, out.content)
              /\ Persisted(r) => fs[r.valid[1]].data = out.content

\* a written request whose second edit matched text its first edit put
\* there
C26_Witness ==
    \E i \in Clients :
        LET r == req[i] IN
        /\ Persisted(r)
        /\ Len(r.edits) = 2
        /\ ~Includes(r.original, r.edits[2].oldText)
        /\ Includes(ApplyEdit(normalizeLineEndings(r.original), r.edits[1]).content,
                    r.edits[2].oldText)
        /\ fs[r.valid[1]].data # ApplyEdit(normalizeLineEndings(r.original), r.edits[1]).content

(***************************************************************************)
(* The JavaScript validator against a scan of the whole text               *)
(***************************************************************************)
\* the verdict of one scan over the whole text, in which a literal ends
\* only at its closing quote and a line break is a character like another
WholeTextVerdict(content) ==
    BracketVerdict(ScanLine(content, FALSE, "", FALSE, <<>>))

\* C28: the validator accepts a text exactly when the brackets outside its
\* quoted literals are balanced and nested, and otherwise reports
\* UnexpectedClosing, Mismatched or Unclosed; brackets inside a literal do
\* not count, wherever the literal begins and ends.
C28_BracketsOutsideLiterals ==
    \A i \in Clients :
        LET r == req[i]
            content == normalizeLineEndings(r.original)
        IN  (r.tool = "edit_file" /\ HasRead(r)) =>
              /\ validateJavaScript(content) = WholeTextVerdict(content)
              /\ (r.pc = "done" /\ WholeTextVerdict(content).valid) => r.result = "ok"

(***************************************************************************)
(* Order and termination of the walk                                       *)
(***************************************************************************)
\* the walk took the entry: it passed validatePath and no exclude pattern
\* matches it
Taken(f, r, full) ==
    /\ Authorized(f, full)
    /\ ~shouldExclude(PathRelative(r.valid[1], full), r.excludePatterns)

\* an entry comes before the entries below it, and the entries at or below
\* one directory are not interrupted by an entry from elsewhere
DepthFirst(results) ==
    /\ \A a, b \in 1..Len(results) :
          (a # b /\ IsPrefix(results[a], results[b])) => a < b
    /\ \A a, b, c \in 1..Len(results) :
          (a < b /\ b < c) =>
             \A n \in 1..Len(results[a]) :
                (n <= Len(results[c])
                 /\ SubSeq(results[a], 1, n) = SubSeq(results[c], 1, n))
                   => IsPrefix(SubSeq(results[a], 1, n), results[b])

\* C27: the results are in depth-first order, and when the search returns
\* every entry of every directory it took has been tested, whether the
\* directory itself matched or not.
C27_DepthFirstOrder ==
    \A i \in Clients :
        LET r == req[i] IN
        r.tool = "search_files" =>
            /\ DepthFirst(r.results)
            /\ Searched(r) =>
                  \A d \in r.visited :
                     Listable(fs, d) =>
                        \A e \in Children(fs, d) :
                           Taken(fs, r, e) => e \in r.visited

\* a finished search that returned an entry of a directory that does not
\* match, after an entry of a directory listed before it
C27_Witness ==
    \E i \in Clients :
        LET r == req[i] IN
        /\ Searched(r)
        /\ r.pattern = <<"s">>
        /\ Len(r.results) = 2
        /\ <<Nr, Nd>> \in r.visited
        /\ <<Nr, Nd>> \notin SeqToSet(r.results)
        /\ <<Nr, Nd, Ns>> \in SeqToSet(r.results)

\* the entries the walk still has to take are entries of the tree, none of
\* them listed twice and none taken before; every listing left has an
\* entry, so that a turn of the loop, or the return, is possible
Pending(f, r) ==
    /\ \A a \in 1..Len(r.stack) :
          /\ r.stack[a] # {}
          /\ r.stack[a] \subseteq DOMAIN f
          /\ r.stack[a] \cap r.seen = {}
    /\ \A a, b \in 1..Len(r.stack) : a # b => r.stack[a] \cap r.stack[b] = {}

\* C29: a search terminates, also on a tree with symlinks to an ancestor
\* or to each other: every turn of the loop takes an entry below the root
\* that no turn took before, so there are at most as many turns as entries,
\* and while entries are left a turn is possible; no path is returned
\* twice.
C29_SearchTerminates ==
    \A i \in Clients :
        LET r == req[i] IN
        (r.tool = "search_files" /\ r.valid # <<>>) =>
            /\ r.turns = Cardinality(r.seen)
            /\ r.seen \subseteq (Subtree(fs, r.valid[1]) \ {r.valid[1]})
            /\ Pending(fs, r)
            /\ r.pc \in {"op", "walk", "done"}
            /\ r.pc = "done" => r.stack = <<>>
            /\ Len(r.results) = Cardinality(SeqToSet(r.results))

\* a finished search of the root of a tree in which a symlink points to its
\* ancestor and another one to that symlink
C29_Witness ==
    \E i \in Clients :
        /\ Searched(req[i])
        /\ req[i].valid[1] = <<Nr>>
        /\ fs[LinkSite] = LinkNode(<<Nr>>)
        /\ fs[<<Nr, Nd, Nl>>] = LinkNode(LinkSite)
        /\ LinkSite \in req[i].seen
        /\ <<Nr, Nd, Nl>> \in req[i].seen

(***************************************************************************)
(* Properties of create_directory                                          *)
(***************************************************************************)
Prefixes(p) == {SubSeq(p, 1, n) : n \in 1..Len(p)}

\* C25: create_directory on a path under the allowed directory, with
\* nothing but directories in its way, succeeds and leaves a directory at
\* the path and at every level above it, however many levels were missing.
C25_CreatesMissingLevels ==
    \A i \in Clients :
        LET r == req[i] IN
        (/\ r.tool = "create_directory"
         /\ r.pc = "done"
         /\ IsPrefix(Root, r.paths[1])
         /\ \A q \in Prefixes(r.paths[1]) :
               Exists(fs, q) => fs[q].type = "dir") =>
            /\ r.result = "ok"
            /\ \A q \in Prefixes(r.paths[1]) : Exists(fs, q)

(***************************************************************************)
(* Properties of run_command                                               *)
(***************************************************************************)
\* C21: a shell that run_command spawned runs in a directory under the
\* allowed directory, and that directory is the one validatePath accepted
\* in this request (the first allowed directory when none was given); a
\* request denied by validatePath has spawned nothing.
C21_SpawnsWhereAuthorized ==
    \A i \in Clients :
        LET r == req[i] IN
        r.tool = "run_command" =>
            /\ r.cmd.spawned =>
                  /\ IsPrefix(Root, r.cmd.at)
                  /\ IF r.cmd.workingDirectory.kind = "absent"
                     THEN r.cmd.at = Root
                     ELSE /\ r.valid # <<>>
                          /\ realpath(fs, r.valid[1]) = Ok(r.cmd.at)
            /\ r.result = "AccessDenied" => ~r.cmd.spawned

\* C22: a run_command request whose child is running returns in the end,
\* whatever timeout was given.
C22_CommandReturns ==
    \A i \in Clients : (req[i].pc = "run") ~> (req[i].pc = "done")

(***************************************************************************)
(* Properties of the dispatcher                                            *)
(***************************************************************************)
\* C23: a tool call that failed, for whatever reason, has been answered
\* with a result that carries the error flag, and the process has not
\* exited: the slot goes on to take the next request.
C23_FailuresAreResults ==
    \A i \in Clients :
        LET r == req[i] IN
        /\ r.pc # "exit"
        /\ r.result \notin {"none", "ok"} => r.pc = "done" /\ r.isError
        /\ r.result = "ok" => ~r.isError
        /\ (r.pc = "done" /\ r.isError /\ r.left > 0) => ENABLED Respond(i)
        /\ (r.pc = "idle" /\ r.errors > 0 /\ r.left > 0) => ENABLED CallUnknown(i)

\* a request served to its successful end after a failure result
C23_Witness ==
    \E i \in Clients :
        /\ req[i].errors = MaxCalls - 1
        /\ req[i].pc = "done"
        /\ req[i].result = "ok"
        /\ req[i].tool = "read_file"

(***************************************************************************)
(* Properties of startup                                                   *)
(***************************************************************************)
\* the argument names something that exists and is a directory
IsDirectoryArgument(w) ==
    /\ Resolve(fs, <<>>, ArgumentPath(w), MaxLinkHops).ok
    /\ fs[Resolve(fs, <<>>, ArgumentPath(w), MaxLinkHops).path].type = "dir"

ArgumentsGood(p) ==
    /\ Len(p.args) > 0
    /\ \A k \in 1..Len(p.args) : IsDirectoryArgument(p.args[k])

Handled == \E i \in Clients : req[i].tool # "none"

\* C24: the transport is connected and a request is handled only when
\* there is at least one argument, every argument has been checked, and
\* every argument is an existing directory; with no argument or a bad one
\* the process ends with exit code 1, and it has ended whenever startup can
\* go no further.
C24_ChecksBeforeServing ==
    LET p == req[Server] IN
    /\ (p.pc = "serving" \/ Handled) =>
          /\ ArgumentsGood(p)
          /\ p.checked = 1..Len(p.args)
    /\ ~ArgumentsGood(p) =>
          /\ p.pc \in {"args", "stat", "exited"}
          /\ ~Handled
          /\ p.pc = "exited" => p.code = 1
          /\ (~ENABLED ParseArgs /\ \A k \in 1..MaxArgs : ~ENABLED StatArgument(k))
                => p.pc = "exited"

\* two good arguments, both checked, and a request handled
C24_Witness ==
    /\ Len(req[Server].args) = MaxArgs
    /\ req[Server].checked = 1..MaxArgs
    /\ req[Server].pc = "serving"
    /\ Handled

====
